---- MODULE Spec2Model ----
(***************************************************************************)
(* Farm imagery indexing pipeline of farm_annotation_tool:                  *)
(*   backend/image_utils.py  parse_date_from_filename, make_thumbnail       *)
(*   backend/storage.py      LocalStorage, S3Storage, get_storage           *)
(*   backend/app.py          build_farm_index, get_farm_data                *)
(* Text is modelled as sequences of one-character strings, so that the      *)
(* regular expressions, lower(), basename(), endswith() and sorted() act    *)
(* on characters as they do in the program.                                 *)
(***************************************************************************)
EXTENDS Integers, Sequences, FiniteSets, TLC

VARIABLES
    pd_arg,      \* parse_date_from_filename: the argument filename_or_path
    pd_ret,      \* parse_date_from_filename: outcome of the call, or NotCalled
    pd_stat,     \* what the filesystem answered about the path, if the call asked
    backend,     \* the storage singleton: "local" (LocalStorage) or "s3" (S3Storage)
    store,       \* the dataset: path below the dataset root |-> bytes; a path
                 \* ending in "/" is a directory (local) or a marker object (S3)
    st_call,     \* the last call made on the storage backend, with its arguments
    st_ret,      \* the outcome of that call
    _FARM_INDEX, \* app.py: the cached farm index, or None
    fi_call,     \* the last build_farm_index call, with its argument
    fi_ret,      \* the list that call returned
    fi_calls,    \* number of build_farm_index calls made
    list_farms_calls,  \* number of list_farms calls build_farm_index made on the backend
    gf_call,     \* the get_farm_data request handled, with what its collaborators answered
    gf_ret,      \* the outcome of that request
    src_files,   \* what the filesystem holds at each source path of a thumbnail
    thumb_cache, \* the files of THUMB_CACHE_DIR: thumb_path |-> file
    tm_pc,       \* make_thumbnail: where each caller stands in its call
    tm_local,    \* make_thumbnail: the local variables of each caller's call
    tm_log,      \* the last two make_thumbnail calls that returned, in order of return
    tm_calls,    \* number of make_thumbnail calls made
    src_changes, \* number of changes made to the source files
    bi_pc,       \* build_farm_index under threads: where each thread stands in its call
    bi_local,    \* build_farm_index under threads: the local variables of each call
    bi_seen,     \* the list the last build_farm_index call to return gave its caller
    bi_listed,   \* the results list_farms has returned to the calls so far
    bi_calls,    \* number of build_farm_index calls the threads have made
    gt_call,     \* the generate_thumbnail_base64 call made, if any
    gt_ret,      \* what the call returned
    assignments, \* the documents of the assignments collection
    ca_pc,       \* where each create_assignment request stands
    ca_local,    \* the local variables of each create_assignment request
    ca_calls     \* number of create_assignment requests made

pd_vars == <<pd_arg, pd_ret, pd_stat>>
st_vars == <<backend, store, st_call, st_ret>>
fi_vars == <<_FARM_INDEX, fi_call, fi_ret, fi_calls, list_farms_calls>>
gf_vars == <<gf_call, gf_ret>>
tm_vars == <<src_files, thumb_cache, tm_pc, tm_local, tm_log, tm_calls, src_changes>>
bi_vars == <<bi_pc, bi_local, bi_seen, bi_listed, bi_calls>>
ip_vars == <<gt_call, gt_ret>>
ca_vars == <<assignments, ca_pc, ca_local, ca_calls>>
cc_vars == <<bi_vars, ip_vars, ca_vars>>

(***************************************************************************)
(* Characters and strings                                                   *)
(***************************************************************************)
Chars(str) == [i \in 1..Len(str) |-> SubSeq(str, i, i)]

DigitSeq == Chars("0123456789")
LowerSeq == Chars("abcdefghijklmnopqrstuvwxyz")
UpperSeq == Chars("ABCDEFGHIJKLMNOPQRSTUVWXYZ")

Digit == {DigitSeq[i] : i \in 1..10}
Letter == {LowerSeq[i] : i \in 1..26}

\* str.lower() on one character (ASCII)
LowerChar(c) ==
    IF \E i \in 1..26 : UpperSeq[i] = c
    THEN LowerSeq[CHOOSE i \in 1..26 : UpperSeq[i] = c]
    ELSE c

\* str.lower()
lower(s) == [i \in 1..Len(s) |-> LowerChar(s[i])]

DigitVal(c) == (CHOOSE i \in 1..10 : DigitSeq[i] = c) - 1

\* the decimal value of a non-empty run of digits
RECURSIVE DecimalValue(_)
DecimalValue(ds) ==
    IF Len(ds) = 0 THEN 0
    ELSE 10 * DecimalValue(SubSeq(ds, 1, Len(ds) - 1)) + DigitVal(ds[Len(ds)])

\* CPython refuses to convert a digit string longer than this (ValueError)
MaxStrDigits == 4300

Return(v) == [kind |-> "return", value |-> v]
Raise(e) == [kind |-> "raise", exc |-> e]
NotCalled == [kind |-> "none"]

\* int(ds) for a string of digits
int(ds) ==
    IF Len(ds) > MaxStrDigits THEN Raise("ValueError")
    ELSE Return(DecimalValue(ds))

\* os.path.basename (posixpath): what follows the last "/"
basename(p) ==
    LET slashes == {i \in 1..Len(p) : p[i] = "/"}
        last == IF slashes = {} THEN 0
                ELSE CHOOSE i \in slashes : \A j \in slashes : j <= i
    IN SubSeq(p, last + 1, Len(p))

(***************************************************************************)
(* Regular-expression matching (re.search: leftmost match, greedy runs)     *)
(***************************************************************************)
NoMatch == <<>>

AllIn(s, a, b, C) == b <= Len(s) /\ \A k \in a..b : s[k] \in C

\* positions where a maximal run of characters of class C begins
RunStarts(s, C) == {i \in 1..Len(s) : s[i] \in C /\ (i = 1 \/ s[i-1] \notin C)}

\* last position of the greedy run of class C that begins at i
RunEnd(s, i, C) ==
    CHOOSE j \in i..Len(s) :
        (j = Len(s) \/ s[j+1] \notin C) /\ \A k \in i..j : s[k] \in C

Leftmost(S) == CHOOSE i \in S : \A j \in S : i <= j

\* a variant of enhanced_pattern that demands two-digit month and day fields
enhanced_pattern_2digit(s) ==
    IF /\ Len(s) \in {14, 15}
       /\ (Len(s) = 15 => s[15] = "\n")
       /\ AllIn(s, 1, 4, Digit) /\ s[5] = "_"
       /\ AllIn(s, 6, 7, Digit) /\ s[8] = "_"
       /\ AllIn(s, 9, 10, Digit)
       /\ SubSeq(s, 11, 14) = Chars(".png")
    THEN <<SubSeq(s, 1, 4), SubSeq(s, 6, 7), SubSeq(s, 9, 10)>>
    ELSE NoMatch

\* ^(\d{4})_(\d{1,2})_(\d{1,2})\.png$   ($ also matches before a final newline)
enhanced_pattern(s) ==
    LET ends == {Len(s)} \cup
                (IF Len(s) > 0 /\ s[Len(s)] = "\n" THEN {Len(s) - 1} ELSE {})
        fits(a, b, e) ==
            /\ e = 4 + 1 + a + 1 + b + 4
            /\ AllIn(s, 1, 4, Digit)
            /\ s[5] = "_"
            /\ AllIn(s, 6, 5 + a, Digit)
            /\ s[6 + a] = "_"
            /\ AllIn(s, 7 + a, 6 + a + b, Digit)
            /\ SubSeq(s, 7 + a + b, e) = Chars(".png")
        ab == {x \in {1, 2} \X {1, 2} : \E e \in ends : fits(x[1], x[2], e)}
    IN IF ab = {} THEN NoMatch
       ELSE LET x == CHOOSE y \in ab : TRUE
            IN <<SubSeq(s, 1, 4), SubSeq(s, 6, 5 + x[1]),
                 SubSeq(s, 7 + x[1], 6 + x[1] + x[2])>>

\* ([a-z]+)_(\d{4})
pattern1(s) ==
    LET ok(i) == LET j == RunEnd(s, i, Letter)
                 IN j + 5 <= Len(s) /\ s[j+1] = "_" /\ AllIn(s, j + 2, j + 5, Digit)
        starts == {i \in RunStarts(s, Letter) : ok(i)}
    IN IF starts = {} THEN NoMatch
       ELSE LET i == Leftmost(starts)
                j == RunEnd(s, i, Letter)
            IN <<SubSeq(s, i, j), SubSeq(s, j + 2, j + 5)>>

\* (\d+)([a-z]+),(\d{4})
pattern2(s) ==
    LET ok(i) == LET j == RunEnd(s, i, Digit)
                 IN /\ j + 1 <= Len(s) /\ s[j+1] \in Letter
                    /\ LET k == RunEnd(s, j + 1, Letter)
                       IN k + 5 <= Len(s) /\ s[k+1] = ","
                          /\ AllIn(s, k + 2, k + 5, Digit)
        starts == {i \in RunStarts(s, Digit) : ok(i)}
    IN IF starts = {} THEN NoMatch
       ELSE LET i == Leftmost(starts)
                j == RunEnd(s, i, Digit)
                k == RunEnd(s, j + 1, Letter)
            IN <<SubSeq(s, i, j), SubSeq(s, j + 1, k), SubSeq(s, k + 2, k + 5)>>

\* (\d+)([a-z]+)(\d{4})
pattern3(s) ==
    LET ok(i) == LET j == RunEnd(s, i, Digit)
                 IN /\ j + 1 <= Len(s) /\ s[j+1] \in Letter
                    /\ LET k == RunEnd(s, j + 1, Letter)
                       IN k + 4 <= Len(s) /\ AllIn(s, k + 1, k + 4, Digit)
        starts == {i \in RunStarts(s, Digit) : ok(i)}
    IN IF starts = {} THEN NoMatch
       ELSE LET i == Leftmost(starts)
                j == RunEnd(s, i, Digit)
                k == RunEnd(s, j + 1, Letter)
            IN <<SubSeq(s, i, j), SubSeq(s, j + 1, k), SubSeq(s, k + 1, k + 4)>>

\* ([a-z]+)(\d+)_(\d{4})
pattern4(s) ==
    LET ok(i) == LET j == RunEnd(s, i, Letter)
                 IN /\ j + 1 <= Len(s) /\ s[j+1] \in Digit
                    /\ LET k == RunEnd(s, j + 1, Digit)
                       IN k + 5 <= Len(s) /\ s[k+1] = "_"
                          /\ AllIn(s, k + 2, k + 5, Digit)
        starts == {i \in RunStarts(s, Letter) : ok(i)}
    IN IF starts = {} THEN NoMatch
       ELSE LET i == Leftmost(starts)
                j == RunEnd(s, i, Letter)
                k == RunEnd(s, j + 1, Digit)
            IN <<SubSeq(s, i, j), SubSeq(s, j + 1, k), SubSeq(s, k + 2, k + 5)>>

\* the list `patterns`, each applied with re.search to the lower-cased name
patterns(s) == <<pattern1(s), pattern2(s), pattern3(s), pattern4(s)>>

\* 20\d{2}
year_pattern(s) ==
    LET starts == {i \in 1..Len(s) :
                     /\ i + 3 <= Len(s)
                     /\ s[i] = "2" /\ s[i+1] = "0"
                     /\ AllIn(s, i + 2, i + 3, Digit)}
    IN IF starts = {} THEN NoMatch
       ELSE LET i == Leftmost(starts) IN <<SubSeq(s, i, i + 3)>>

month_map ==
    (Chars("jan") :> 1) @@ (Chars("january") :> 1) @@
    (Chars("feb") :> 2) @@ (Chars("february") :> 2) @@
    (Chars("mar") :> 3) @@ (Chars("march") :> 3) @@
    (Chars("apr") :> 4) @@ (Chars("april") :> 4) @@
    (Chars("may") :> 5) @@
    (Chars("jun") :> 6) @@ (Chars("june") :> 6) @@
    (Chars("jul") :> 7) @@ (Chars("july") :> 7) @@
    (Chars("aug") :> 8) @@ (Chars("august") :> 8) @@
    (Chars("sep") :> 9) @@ (Chars("sept") :> 9) @@ (Chars("september") :> 9) @@
    (Chars("oct") :> 10) @@ (Chars("october") :> 10) @@
    (Chars("nov") :> 11) @@ (Chars("november") :> 11) @@
    (Chars("dec") :> 12) @@ (Chars("december") :> 12)

(***************************************************************************)
(* parse_date_from_filename                                                 *)
(***************************************************************************)
isdigit(g) == Len(g) > 0 /\ \A k \in 1..Len(g) : g[k] \in Digit

Continue == [kind |-> "continue"]

\* the tuple (int(year_str), month_map[month_str], day): int() may raise
date_tuple(year_str, month_str, day) ==
    IF int(year_str).kind = "raise" THEN int(year_str)
    ELSE IF day.kind = "raise" THEN day
    ELSE Return(<<int(year_str).value, month_map[month_str], day.value>>)

\* a variant of legacy_groups that reads every three-group match as
\* (month, day, year), without the isdigit() test on the first group
legacy_groups_no_isdigit(groups) ==
    IF groups = NoMatch THEN Continue
    ELSE IF Len(groups) = 2 THEN
        IF groups[1] \in DOMAIN month_map
        THEN date_tuple(groups[2], groups[1], Return(1))
        ELSE Continue
    ELSE
        IF groups[1] \in DOMAIN month_map
        THEN date_tuple(groups[3], groups[1], int(groups[2]))
        ELSE Continue

\* body of the loop over `patterns` for one match object
legacy_groups(groups) ==
    IF groups = NoMatch THEN Continue
    ELSE IF Len(groups) = 2 THEN
        IF groups[1] \in DOMAIN month_map
        THEN date_tuple(groups[2], groups[1], Return(1))
        ELSE Continue
    ELSE IF isdigit(groups[1]) THEN
        IF groups[2] \in DOMAIN month_map
        THEN date_tuple(groups[3], groups[2], int(groups[1]))
        ELSE Continue
    ELSE
        IF groups[1] \in DOMAIN month_map
        THEN date_tuple(groups[3], groups[1], int(groups[2]))
        ELSE Continue

\* a variant of legacy_loop that ends at the first pattern that matches,
\* whether its month token is in the table or not
RECURSIVE legacy_loop_first_match(_, _)
legacy_loop_first_match(ms, k) ==
    IF k > Len(ms) THEN Continue
    ELSE IF ms[k] # NoMatch THEN legacy_groups(ms[k])
    ELSE legacy_loop_first_match(ms, k + 1)

\* for pattern in patterns: ...   (the first iteration that returns or raises)
RECURSIVE legacy_loop(_, _)
legacy_loop(ms, k) ==
    IF k > Len(ms) THEN Continue
    ELSE IF legacy_groups(ms[k]) # Continue THEN legacy_groups(ms[k])
    ELSE legacy_loop(ms, k + 1)

\* what os.path.exists / os.path.getmtime find at the path: no file, a file
\* whose timestamp cannot be read, or the calendar date of its modification
NotAsked == <<"not asked">>
Absent == <<"absent">>
StatError == <<"error">>

mtime_fallback(st) ==
    IF st = Absent \/ st = StatError THEN Return(<<2024, 0, 0>>)
    ELSE Return(st)

\* lines 15-78: what the name alone decides, or Continue
name_rules(filename_or_path) ==
    LET filename == basename(filename_or_path)
        filename_lower == lower(filename)
        match == enhanced_pattern(filename_lower)
    IN IF match # NoMatch
       THEN Return(<<int(match[1]).value, int(match[2]).value, int(match[3]).value>>)
       ELSE LET r == legacy_loop(patterns(filename_lower), 1)
            IN IF r # Continue THEN r
               ELSE LET year_match == year_pattern(filename)
                    IN IF year_match # NoMatch
                       THEN Return(<<int(year_match[1]).value, 0, 0>>)
                       ELSE Continue

parse_date_from_filename(filename_or_path, st) ==
    IF name_rules(filename_or_path) # Continue
    THEN name_rules(filename_or_path)
    ELSE mtime_fallback(st)

(***************************************************************************)
(* Inputs of the date parser                                                *)
(***************************************************************************)
Tokens == {<<>>, Chars("mar"), Chars("March"), Chars("sept"), Chars("x"),
           Chars("5"), Chars("05"), Chars("13"), Chars("2024"), Chars("1999")}
Seps == {<<>>, Chars("_"), Chars(",")}
Exts == {Chars(".png"), Chars(".PNG"), Chars(".tif"), Chars(".png\n")}
Dirs == {<<>>, Chars("/farm_X/2024/")}

\* a name whose day token has more digits than int() converts
LongDigits == 4301
LongName == [i \in 1..(LongDigits + 12) |->
               IF i <= LongDigits THEN "1" ELSE Chars("mar,2024.png")[i - LongDigits]]

\* names in which several legacy patterns find a match
ManyTokens ==
    {Chars("x_2024_5mar,1999.png"), Chars("5mar,1999_mar_2024.png"),
     Chars("5mar2024mar9_1999.png"), Chars("5x,2024_7mar2023.png"),
     Chars("x_2020_mar_2024.png"), Chars("/farm_X/2024/sept7_2023_5x2021.TIF"),
     Chars("9x2021june4_2022.jpg"), Chars("2024_5_13.png_mar_1999.png")}

Filenames ==
    {d \o t1 \o s1 \o t2 \o s2 \o t3 \o e :
        d \in Dirs, t1 \in Tokens, s1 \in Seps, t2 \in Tokens, s2 \in Seps,
        t3 \in Tokens, e \in Exts}
    \cup ManyTokens
    \cup {LongName}

Stats == {Absent, StatError, <<2023, 11, 7>>}

(***************************************************************************)
(* Specification of the date parser: one call on an arbitrary input         *)
(***************************************************************************)
NoCall == [op |-> "none"]
\* an Optional[List]: None, or a list
None == [is_none |-> TRUE, list |-> <<>>]
Some(l) == [is_none |-> FALSE, list |-> l]

IndexIdle ==
    /\ _FARM_INDEX = None
    /\ fi_call = NoCall
    /\ fi_ret = None
    /\ fi_calls = 0
    /\ list_farms_calls = 0

CatalogIdle ==
    /\ gf_call = NoCall
    /\ gf_ret = [kind |-> "none"]

BuildersIdle ==
    /\ bi_pc = <<>>
    /\ bi_local = <<>>
    /\ bi_seen = None
    /\ bi_listed = {}
    /\ bi_calls = 0

ProcessorIdle ==
    /\ gt_call = NoCall
    /\ gt_ret = [kind |-> "none"]

AssignmentsIdle ==
    /\ assignments = <<>>
    /\ ca_pc = <<>>
    /\ ca_local = <<>>
    /\ ca_calls = 0

ConcurrentIdle == BuildersIdle /\ ProcessorIdle /\ AssignmentsIdle

ThumbnailsIdle ==
    /\ src_files = <<>>
    /\ thumb_cache = <<>>
    /\ tm_pc = <<>>
    /\ tm_local = <<>>
    /\ tm_log = <<>>
    /\ tm_calls = 0
    /\ src_changes = 0

StorageIdle ==
    /\ backend = "local"
    /\ store = <<>>
    /\ st_call = NoCall
    /\ st_ret = NotCalled

ParseInit ==
    /\ pd_arg \in Filenames
    /\ pd_ret = NotCalled
    /\ pd_stat = NotAsked
    /\ StorageIdle
    /\ IndexIdle
    /\ CatalogIdle
    /\ ThumbnailsIdle
    /\ ConcurrentIdle

ParseDate ==
    /\ pd_ret = NotCalled
    /\ \E r \in {name_rules(pd_arg)} :
          IF r # Continue
          THEN pd_ret' = r /\ pd_stat' = NotAsked
          ELSE \E st \in Stats : pd_ret' = mtime_fallback(st) /\ pd_stat' = st
    /\ UNCHANGED <<pd_arg, st_vars, fi_vars, gf_vars, tm_vars, cc_vars>>

ParseNext == ParseDate

vars == <<pd_vars, st_vars, fi_vars, gf_vars, tm_vars, cc_vars>>

SpecParse == ParseInit /\ [][ParseNext]_vars

(***************************************************************************)
(* Properties of the date parser                                            *)
(***************************************************************************)
Called == pd_ret.kind # "none"

\* the name has the form YYYY_M_D.png: lengths a and c of the month and day
\* fields, extension in any letter case
CanonicalFields(b) ==
    {x \in {1, 2} \X {1, 2} :
        /\ Len(b) = 10 + x[1] + x[2]
        /\ \A k \in 1..4 : b[k] \in Digit
        /\ b[5] = "_"
        /\ \A k \in 6..(5 + x[1]) : b[k] \in Digit
        /\ b[6 + x[1]] = "_"
        /\ \A k \in (7 + x[1])..(6 + x[1] + x[2]) : b[k] \in Digit
        /\ b[7 + x[1] + x[2]] = "."
        /\ b[8 + x[1] + x[2]] \in {"p", "P"}
        /\ b[9 + x[1] + x[2]] \in {"n", "N"}
        /\ b[10 + x[1] + x[2]] \in {"g", "G"}}

\* C1: for every filename whose basename has the canonical form YYYY_M_D.png
\* (extension in any letter case), whatever directory precedes the basename,
\* parse_date_from_filename returns exactly (YYYY, M, D).
C1_CanonicalExact ==
    Called =>
        LET b == basename(pd_arg)
        IN \A x \in CanonicalFields(b) :
              pd_ret = Return(<<DecimalValue(SubSeq(b, 1, 4)),
                                DecimalValue(SubSeq(b, 6, 5 + x[1])),
                                DecimalValue(SubSeq(b, 7 + x[1], 6 + x[1] + x[2]))>>)

C1_Witness ==
    /\ pd_arg = Chars("/farm_X/2024/2024_5_13.PNG")
    /\ pd_ret = Return(<<2024, 5, 13>>)

\* every way the regular expression of legacy pattern k can match in s,
\* as <<start, month token, year token>>
LettersTo(s, a) == {b \in a..Len(s) : \A q \in a..b : s[q] \in Letter}
DigitsTo(s, a) == {b \in a..Len(s) : \A q \in a..b : s[q] \in Digit}
FourDigitsAt(s, a) == a + 3 <= Len(s) /\ \A q \in a..(a + 3) : s[q] \in Digit
SepAt(s, a, c) == a <= Len(s) /\ s[a] = c

LegacyMatches(k, s) ==
    CASE k = 1 ->
           UNION {{<<i, SubSeq(s, i, j), SubSeq(s, j + 2, j + 5)>> :
                     j \in {e \in LettersTo(s, i) :
                              SepAt(s, e + 1, "_") /\ FourDigitsAt(s, e + 2)}} :
                  i \in 1..Len(s)}
      [] k = 2 ->
           UNION {UNION {{<<i, SubSeq(s, j + 1, m), SubSeq(s, m + 2, m + 5)>> :
                            m \in {e \in LettersTo(s, j + 1) :
                                     SepAt(s, e + 1, ",") /\ FourDigitsAt(s, e + 2)}} :
                         j \in DigitsTo(s, i)} :
                  i \in 1..Len(s)}
      [] k = 3 ->
           UNION {UNION {{<<i, SubSeq(s, j + 1, m), SubSeq(s, m + 1, m + 4)>> :
                            m \in {e \in LettersTo(s, j + 1) : FourDigitsAt(s, e + 1)}} :
                         j \in DigitsTo(s, i)} :
                  i \in 1..Len(s)}
      [] k = 4 ->
           UNION {UNION {{<<i, SubSeq(s, i, j), SubSeq(s, m + 2, m + 5)>> :
                            m \in {e \in DigitsTo(s, j + 1) :
                                     SepAt(s, e + 1, "_") /\ FourDigitsAt(s, e + 2)}} :
                         j \in LettersTo(s, i)} :
                  i \in 1..Len(s)}

\* re.search reports the match that starts leftmost, its first group longest
FirstMatch(k, s) ==
    LET M == LegacyMatches(k, s)
    IN CHOOSE m \in M : \A o \in M :
          m[1] < o[1] \/ (m[1] = o[1] /\ Len(m[2]) >= Len(o[2]))

\* legacy patterns whose reported match carries a month name of the table
MonthRules(s) ==
    {k \in 1..4 : LegacyMatches(k, s) # {}
                   /\ FirstMatch(k, s)[2] \in DOMAIN month_map}

MonthNamesIn(s) ==
    {m \in DOMAIN month_map :
        \E i \in 1..Len(s) : i + Len(m) - 1 <= Len(s)
                             /\ SubSeq(s, i, i + Len(m) - 1) = m}

YearsIn(s) ==
    {DecimalValue(SubSeq(s, i, i + 3)) :
        i \in {q \in 1..Len(s) : q + 3 <= Len(s)
                                 /\ \A r \in q..(q + 3) : s[r] \in Digit}}

C4_NeverFails ==
    Called =>
        /\ pd_ret.kind = "return"
        /\ Len(pd_ret.value) = 3
        /\ \A k \in 1..3 : pd_ret.value[k] \in Int

\* rule 1: the canonical pattern matches the basename: YYYY_M_D.png in any
\* letter case, alone or before one final newline (which `$` admits)
CanonicalPart(b) ==
    IF Len(b) > 0 /\ b[Len(b)] = "\n" THEN SubSeq(b, 1, Len(b) - 1) ELSE b

\* the longest run of digits of s that begins at a
DigitRun(s, a) ==
    SubSeq(s, a, CHOOSE e \in DigitsTo(s, a) : \A o \in DigitsTo(s, a) : o <= e)

\* the day token of the match that legacy pattern k reports in s
LegacyDay(k, s) ==
    IF k = 1 THEN <<"1">>
    ELSE IF k = 4 THEN DigitRun(s, FirstMatch(k, s)[1] + Len(FirstMatch(k, s)[2]))
    ELSE DigitRun(s, FirstMatch(k, s)[1])

\* rule 3: places of the name where a token 20dd begins
YearTokens(b) ==
    {i \in 1..(Len(b) - 3) : b[i] = "2" /\ b[i + 1] = "0"
                              /\ b[i + 2] \in Digit /\ b[i + 3] \in Digit}

\* C18: parse_date_from_filename returns the result of the first rule that
\* applies, in the order: (1) the canonical form; (2) the legacy patterns
\* <month>_<year>, <day><month>,<year>, <day><month><year>,
\* <month><day>_<year>, a pattern applying only if the month token of its
\* match is in the month table; (3) the first token 20dd of the name, giving
\* (year, 0, 0); (4) the modification date of the path, if there is one to
\* read; (5) (2024, 0, 0).  The filesystem is asked only when rules 1 to 3 do
\* not apply.  A call returns nothing (it raises) only for a name with more
\* digits than int() converts.
C18_FirstRuleWins ==
    IF pd_ret.kind = "raise" THEN Len(basename(pd_arg)) > MaxStrDigits
    ELSE Called =>
        \A b \in {basename(pd_arg)} :
           IF CanonicalFields(CanonicalPart(b)) # {}
           THEN /\ pd_stat = NotAsked
                /\ \A x \in CanonicalFields(CanonicalPart(b)) :
                      pd_ret = Return(<<DecimalValue(SubSeq(b, 1, 4)),
                                        DecimalValue(SubSeq(b, 6, 5 + x[1])),
                                        DecimalValue(SubSeq(b, 7 + x[1], 6 + x[1] + x[2]))>>)
           ELSE \A s \in {lower(b)} : \A rules \in {MonthRules(s)} :
                IF rules # {}
                THEN /\ pd_stat = NotAsked
                     /\ \A k \in {h \in rules : \A o \in rules : h <= o} :
                        \A m \in {FirstMatch(k, s)} :
                           pd_ret = Return(<<DecimalValue(m[3]), month_map[m[2]],
                                             DecimalValue(LegacyDay(k, s))>>)
                ELSE \A tokens \in {YearTokens(b)} :
                     IF tokens # {}
                     THEN /\ pd_stat = NotAsked
                          /\ \A i \in {h \in tokens : \A o \in tokens : h <= o} :
                                pd_ret = Return(<<DecimalValue(SubSeq(b, i, i + 3)), 0, 0>>)
                     ELSE /\ pd_stat \in Stats
                          /\ pd_ret = IF pd_stat # Absent /\ pd_stat # StatError
                                      THEN Return(pd_stat)
                                      ELSE Return(<<2024, 0, 0>>)

\* pattern 1 matches x_2024 without a month name, pattern 2 answers before
\* the year rule does
C18_Witness ==
    /\ pd_arg = Chars("x_2024_5mar,1999.png")
    /\ pd_ret = Return(<<1999, 3, 5>>)

(***************************************************************************)
(* Text order and path helpers                                              *)
(***************************************************************************)
\* the characters in use, in code-point order
CodeOrder ==
    Chars("\n ,-./0123456789ABCDEFGHIJKLMNOPQRSTUVWXYZ\\_abcdefghijklmnopqrstuvwxyz")

ord(c) == CHOOSE i \in 1..Len(CodeOrder) : CodeOrder[i] = c

Min(a, b) == IF a <= b THEN a ELSE b

\* a < b for Python strings: code points compared left to right
StrLess(a, b) ==
    \E i \in 1..(Min(Len(a), Len(b)) + 1) :
        /\ \A k \in 1..(i - 1) : a[k] = b[k]
        /\ \/ (i > Len(a) /\ i <= Len(b))
           \/ (i <= Len(a) /\ i <= Len(b) /\ ord(a[i]) < ord(b[i]))

\* sorted(xs) for a collection of distinct strings
RECURSIVE sorted(_)
sorted(S) ==
    IF S = {} THEN <<>>
    ELSE LET m == CHOOSE x \in S : \A y \in S \ {x} : StrLess(x, y)
         IN <<m>> \o sorted(S \ {m})

startswith(s, p) == Len(p) <= Len(s) /\ SubSeq(s, 1, Len(p)) = p
endswith(s, p) == Len(p) <= Len(s) /\ SubSeq(s, Len(s) - Len(p) + 1, Len(s)) = p

\* name.lower().endswith(('.tif', '.tiff', '.png', '.jpg', '.jpeg'))
ImageExts == {Chars(".tif"), Chars(".tiff"), Chars(".png"), Chars(".jpg"), Chars(".jpeg")}
is_image_name(name) == \E e \in ImageExts : endswith(lower(name), e)

\* s.rstrip('/')
RECURSIVE rstrip_slash(_)
rstrip_slash(s) ==
    IF Len(s) > 0 /\ s[Len(s)] = "/" THEN rstrip_slash(SubSeq(s, 1, Len(s) - 1))
    ELSE s

\* s.replace('\\', '/')
replace_backslash(s) == [i \in 1..Len(s) |-> IF s[i] = "\\" THEN "/" ELSE s[i]]

\* s.split('/')
RECURSIVE split(_)
split(s) ==
    IF \A i \in 1..Len(s) : s[i] # "/" THEN <<s>>
    ELSE LET i == CHOOSE q \in 1..Len(s) : s[q] = "/" /\ \A r \in 1..(q - 1) : s[r] # "/"
         IN <<SubSeq(s, 1, i - 1)>> \o split(SubSeq(s, i + 1, Len(s)))

\* '/'.join(parts)
RECURSIVE join_slash(_)
join_slash(parts) ==
    IF Len(parts) = 0 THEN <<>>
    ELSE IF Len(parts) = 1 THEN parts[1]
    ELSE parts[1] \o <<"/">> \o join_slash(Tail(parts))

\* os.path.join(a, b) (posixpath)
path_join(a, b) ==
    IF startswith(b, <<"/">>) THEN b
    ELSE IF a = <<>> \/ endswith(a, <<"/">>) THEN a \o b
    ELSE a \o <<"/">> \o b

(***************************************************************************)
(* The local file system below base_path (LocalStorage)                     *)
(***************************************************************************)
base_path == Chars("/srv/farm_dataset")

\* directories and regular files of the dataset, as paths below base_path
LocalDirs ==
    UNION {{SubSeq(k, 1, i - 1) : i \in {q \in 1..Len(k) : k[q] = "/"}} :
           k \in DOMAIN store}

LocalFiles == {k \in DOMAIN store : k[Len(k)] # "/"}

\* Walk the components of an absolute path as the kernel does (no symbolic
\* links): cur is the directory reached, as components below "/".  The result
\* is <<"dir", components>>, <<"file", components>> or <<"noent">>.
BaseParts == Tail(split(base_path))

IsDirParts(parts) ==
    \/ (Len(parts) <= Len(BaseParts) /\ parts = SubSeq(BaseParts, 1, Len(parts)))
    \/ /\ Len(parts) > Len(BaseParts)
       /\ SubSeq(parts, 1, Len(BaseParts)) = BaseParts
       /\ join_slash(SubSeq(parts, Len(BaseParts) + 1, Len(parts))) \in LocalDirs

IsFileParts(parts) ==
    /\ Len(parts) > Len(BaseParts)
    /\ SubSeq(parts, 1, Len(BaseParts)) = BaseParts
    /\ join_slash(SubSeq(parts, Len(BaseParts) + 1, Len(parts))) \in LocalFiles

RECURSIVE walk_path(_, _)
walk_path(cur, rest) ==
    IF Len(rest) = 0 THEN <<"dir", cur>>
    ELSE LET c == rest[1]
         IN IF c = <<>> \/ c = <<".">> THEN walk_path(cur, Tail(rest))
            ELSE IF c = <<".", ".">>
                 THEN walk_path(IF Len(cur) = 0 THEN cur ELSE SubSeq(cur, 1, Len(cur) - 1),
                                Tail(rest))
            ELSE IF IsDirParts(Append(cur, c)) THEN walk_path(Append(cur, c), Tail(rest))
            ELSE IF IsFileParts(Append(cur, c)) /\ Len(rest) = 1
                 THEN <<"file", Append(cur, c)>>
            ELSE <<"noent">>

\* the path handed to the kernel: relative paths are not used by the program
lookup(path) == walk_path(<<>>, Tail(split(path)))

\* os.path.isdir, os.path.isfile
isdir(path) == lookup(path)[1] = "dir"
isfile(path) == lookup(path)[1] = "file"

\* the path below base_path of what lookup found inside the dataset
below_base(parts) == join_slash(SubSeq(parts, Len(BaseParts) + 1, Len(parts)))

(***************************************************************************)
(* LocalStorage                                                             *)
(***************************************************************************)
\* os.listdir(base_path): the names directly below the dataset root
listdir_base == {split(k)[1] : k \in DOMAIN store}

\* a variant of LocalStorage_list_farms that keeps the sentinel "0"
LocalStorage_list_farms_keep0(fault) ==
    IF fault # "none" THEN Return(<<>>)
    ELSE Return(sorted({d \in listdir_base : isdir(path_join(base_path, d))}))

\* fault: os.listdir raises (caught, logged, [] returned)
LocalStorage_list_farms(fault) ==
    IF fault # "none" THEN Return(<<>>)
    ELSE Return(sorted({d \in listdir_base :
                          isdir(path_join(base_path, d)) /\ d # <<"0">>}))

\* the directories os.walk enters on the way from the directory `top` down to
\* the directory that holds the file f (both as paths below base_path)
DirsDownTo(top, f) ==
    LET fp == split(f)
        tp == IF top = <<>> THEN <<>> ELSE split(top)
    IN {join_slash(SubSeq(fp, 1, n)) : n \in Len(tp)..(Len(fp) - 1)}

IsUnder(top, f) ==
    LET fp == split(f)
        tp == IF top = <<>> THEN <<>> ELSE split(top)
    IN Len(fp) > Len(tp) /\ SubSeq(fp, 1, Len(tp)) = tp

\* os.path.relpath(full_path, farm_path) for a file below farm_path
relpath(top, f) ==
    LET fp == split(f)
        tp == IF top = <<>> THEN <<>> ELSE split(top)
    IN join_slash(SubSeq(fp, Len(tp) + 1, Len(fp)))

\* the files os.walk(farm_path) reports: a directory whose scandir fails
\* (bad) is skipped with everything below it, without an error
walk_files(top, bad) ==
    {f \in LocalFiles : IsUnder(top, f) /\ DirsDownTo(top, f) \cap bad = {}}

Orders(S) ==
    {o \in [1..Cardinality(S) -> S] : \A i, j \in 1..Cardinality(S) : o[i] = o[j] => i = j}

\* order: the order in which os.walk reports the files
LocalStorage_list_images(farm_id, bad, order) ==
    LET farm_path == path_join(base_path, farm_id)
    IN IF ~isdir(farm_path) THEN Return(<<>>)
       ELSE LET top == below_base(lookup(farm_path)[2])
                picked == SelectSeq(order, LAMBDA f : is_image_name(f))
            IN Return([i \in 1..Len(picked) |->
                         replace_backslash(relpath(top, picked[i]))])

LocalStorage_image_exists(farm_id, image_path) ==
    Return(isfile(path_join(path_join(base_path, farm_id), image_path)))

\* a variant of LocalStorage_get_image without the isfile() test: open() fails
LocalStorage_get_image_no_test(farm_id, image_path, fault) ==
    LET full_path == path_join(path_join(base_path, farm_id), image_path)
    IN IF ~isfile(full_path) THEN Raise("IsADirectoryError")
       ELSE IF fault # "none" THEN Raise("PermissionError")
       ELSE Return(store[below_base(lookup(full_path)[2])])

\* fault: open() or read() fails on the file that isfile() found
LocalStorage_get_image(farm_id, image_path, fault) ==
    LET full_path == path_join(path_join(base_path, farm_id), image_path)
    IN IF ~isfile(full_path) THEN Raise("FileNotFoundError")
       ELSE IF fault # "none" THEN Raise("PermissionError")
       ELSE Return(store[below_base(lookup(full_path)[2])])

LocalStorage_farm_exists(farm_id) ==
    Return(isdir(path_join(base_path, farm_id)))

(***************************************************************************)
(* S3Storage                                                                *)
(***************************************************************************)
prefix == Chars("farm_dataset/")

\* keys of the bucket
Keys == {prefix \o k : k \in DOMAIN store}
Object(key) == store[SubSeq(key, Len(prefix) + 1, Len(key))]

\* entries per response page of list_objects_v2
PageSize == 2

\* what follows pfx in the key, and whether the delimiter occurs in it
AfterPrefix(pfx, key) == SubSeq(key, Len(pfx) + 1, Len(key))
HasDelimiter(pfx, key) == \E i \in 1..Len(AfterPrefix(pfx, key)) : AfterPrefix(pfx, key)[i] = "/"

\* the common prefix a key rolls up to under Delimiter='/'
RollUp(pfx, key) == pfx \o split(AfterPrefix(pfx, key))[1] \o <<"/">>

\* paginator.paginate(Prefix=pfx[, Delimiter='/']): the pages, in key order;
\* each page has its keys (Contents) and its rolled-up prefixes (CommonPrefixes)
Pages(pfx, delimiter) ==
    LET under == {k \in Keys : startswith(k, pfx)}
        rolled == {k \in under : delimiter /\ HasDelimiter(pfx, k)}
        common == {RollUp(pfx, k) : k \in rolled}
        plain == under \ rolled
        entries == sorted(plain \cup common)
        n == Len(entries)
        count == IF n = 0 THEN 1 ELSE (n + PageSize - 1) \div PageSize
        page(i) == SubSeq(entries, (i - 1) * PageSize + 1, Min(i * PageSize, n))
    IN [i \in 1..count |->
          [Contents |-> SelectSeq(page(i), LAMBDA e : e \in plain),
           CommonPrefixes |-> SelectSeq(page(i), LAMBDA e : e \in common)]]

Range(f) == {f[i] : i \in DOMAIN f}

\* a variant of farms_after that drops the empty id only
farms_after_keep0(pages, n) ==
    LET farm_id(farm_path) == rstrip_slash(SubSeq(farm_path, Len(prefix) + 1, Len(farm_path)))
    IN {farm_id(c) : c \in
          {c \in UNION {Range(pages[i].CommonPrefixes) : i \in 1..n} :
              farm_id(c) # <<>>}}

\* the set `farms` after the first n pages
farms_after(pages, n) ==
    LET farm_id(farm_path) == rstrip_slash(SubSeq(farm_path, Len(prefix) + 1, Len(farm_path)))
    IN {farm_id(c) : c \in
          {c \in UNION {Range(pages[i].CommonPrefixes) : i \in 1..n} :
              farm_id(c) # <<>> /\ farm_id(c) # <<"0">>}}

\* fail_at: the page whose request raises (0: none does); any exception is
\* caught, logged, and [] returned
S3Storage_list_farms(fail_at) ==
    LET pages == Pages(prefix, TRUE)
    IN IF fail_at \in 1..Len(pages) THEN Return(<<>>)
       ELSE Return(sorted(farms_after(pages, Len(pages))))

\* the list `images` after the first n pages
RECURSIVE images_after(_, _, _)
images_after(pages, n, farm_prefix) ==
    IF n = 0 THEN <<>>
    ELSE LET keys == SelectSeq(pages[n].Contents, LAMBDA key : is_image_name(key))
         IN images_after(pages, n - 1, farm_prefix)
            \o [i \in 1..Len(keys) |-> SubSeq(keys[i], Len(farm_prefix) + 1, Len(keys[i]))]

S3Storage_list_images(farm_id, fail_at) ==
    LET farm_prefix == prefix \o farm_id \o <<"/">>
        pages == Pages(farm_prefix, FALSE)
    IN IF fail_at \in 1..Len(pages) THEN Return(<<>>)
       ELSE Return(images_after(pages, Len(pages), farm_prefix))

\* a variant of S3Storage_get_image that lets the NoSuchKey error through
S3Storage_get_image_reraise(farm_id, image_path, fault) ==
    LET key == prefix \o farm_id \o <<"/">> \o image_path
    IN IF fault # "none" THEN Raise(fault)
       ELSE IF key \notin Keys THEN Raise("ClientError")
       ELSE Return(Object(key))

\* fault: "ClientError" (an error response other than NoSuchKey) or
\* "BotoCoreError" (no response); both leave get_image as they are
S3Storage_get_image(farm_id, image_path, fault) ==
    LET key == prefix \o farm_id \o <<"/">> \o image_path
    IN IF fault # "none" THEN Raise(fault)
       ELSE IF key \notin Keys THEN Raise("FileNotFoundError")
       ELSE Return(Object(key))

\* list_objects_v2(Prefix=farm_prefix, MaxKeys=1); any exception gives False
S3Storage_farm_exists(farm_id, fault) ==
    LET farm_prefix == prefix \o farm_id \o <<"/">>
    IN IF fault # "none" THEN Return(FALSE)
       ELSE Return(\E k \in Keys : startswith(k, farm_prefix))

\* head_object; a ClientError gives False, any other exception leaves
S3Storage_image_exists(farm_id, image_path, fault) ==
    LET key == prefix \o farm_id \o <<"/">> \o image_path
    IN IF fault = "ClientError" THEN Return(FALSE)
       ELSE IF fault # "none" THEN Raise(fault)
       ELSE Return(key \in Keys)

(***************************************************************************)
(* Specification of the storage backends: one call on an arbitrary dataset  *)
(***************************************************************************)
MaxFiles == 4

Blob(k) == IF k[Len(k)] = "/" THEN <<>> ELSE <<"bytes of", k>>

CommonPool ==
    {Chars("0/a.png"), Chars("alpha/2024/a.png"), Chars("alpha/b.TIF"),
     Chars("alpha/notes.txt"), Chars("beta/2025/c.jpeg"), Chars("gamma/"),
     Chars("readme.png"), Chars("alpha/x\\y.png")}

\* an S3 key may have an empty first segment; a file name may not be empty
Pool(b) == IF b = "s3" THEN CommonPool \cup {Chars("/odd.png")} ELSE CommonPool

Datasets(b) ==
    {[k \in ks |-> Blob(k)] : ks \in {x \in SUBSET Pool(b) : Cardinality(x) <= MaxFiles}}

FarmArgs == {Chars("alpha"), Chars("beta"), Chars("gamma"), Chars("0"),
             Chars("ghost"), <<>>, Chars("alpha/2024")}
PathArgs == {Chars("2024/a.png"), Chars("b.TIF"), Chars("notes.txt"),
             Chars("x\\y.png"), Chars("x/y.png"), Chars("2024"), <<>>,
             Chars("../beta/2025/c.jpeg"), Chars("/srv/farm_dataset/readme.png")}

Call(op, farm_id, image_path, fault, fail_at, bad) ==
    [op |-> op, farm_id |-> farm_id, image_path |-> image_path,
     fault |-> fault, fail_at |-> fail_at, bad |-> bad]

ParserIdle ==
    /\ pd_arg = <<>>
    /\ pd_ret = NotCalled
    /\ pd_stat = NotAsked

StorageInit ==
    /\ backend \in {"local", "s3"}
    /\ store \in Datasets(backend)
    /\ st_call = NoCall
    /\ st_ret = NotCalled
    /\ ParserIdle
    /\ IndexIdle
    /\ CatalogIdle
    /\ ThumbnailsIdle
    /\ ConcurrentIdle

ListFarms ==
    /\ st_call = NoCall
    /\ \/ /\ backend = "local"
          /\ \E fault \in {"none", "OSError"} :
                /\ st_call' = Call("list_farms", <<>>, <<>>, fault, 0, {})
                /\ st_ret' = LocalStorage_list_farms(fault)
       \/ /\ backend = "s3"
          /\ \E fail_at \in 0..Len(Pages(prefix, TRUE)) :
                /\ st_call' = Call("list_farms", <<>>, <<>>,
                                   IF fail_at = 0 THEN "none" ELSE "ClientError", fail_at, {})
                /\ st_ret' = S3Storage_list_farms(fail_at)
    /\ UNCHANGED <<backend, store, pd_vars, fi_vars, gf_vars, tm_vars, cc_vars>>

ListImages ==
    /\ st_call = NoCall
    /\ \E farm_id \in FarmArgs :
        \/ /\ backend = "local"
           /\ LET farm_path == path_join(base_path, farm_id)
                  top == IF isdir(farm_path) THEN below_base(lookup(farm_path)[2]) ELSE <<>>
                  inside == IF isdir(farm_path)
                            THEN {d \in LocalDirs \cup {<<>>} : d = top \/ IsUnder(top, d)}
                            ELSE {}
              IN \E bad \in {{}} \cup {{d} : d \in inside} :
                   \E order \in Orders(IF isdir(farm_path) THEN walk_files(top, bad) ELSE {}) :
                      /\ st_call' = Call("list_images", farm_id, <<>>,
                                         IF bad = {} THEN "none" ELSE "OSError", 0, bad)
                      /\ st_ret' = LocalStorage_list_images(farm_id, bad, order)
        \/ /\ backend = "s3"
           /\ \E fail_at \in 0..Len(Pages(prefix \o farm_id \o <<"/">>, FALSE)) :
                /\ st_call' = Call("list_images", farm_id, <<>>,
                                   IF fail_at = 0 THEN "none" ELSE "ClientError", fail_at, {})
                /\ st_ret' = S3Storage_list_images(farm_id, fail_at)
    /\ UNCHANGED <<backend, store, pd_vars, fi_vars, gf_vars, tm_vars, cc_vars>>

GetImage ==
    /\ st_call = NoCall
    /\ \E farm_id \in FarmArgs, image_path \in PathArgs :
        \/ /\ backend = "local"
           /\ \E fault \in {"none", "PermissionError"} :
                /\ st_call' = Call("get_image", farm_id, image_path, fault, 0, {})
                /\ st_ret' = LocalStorage_get_image(farm_id, image_path, fault)
        \/ /\ backend = "s3"
           /\ \E fault \in {"none", "ClientError", "BotoCoreError"} :
                /\ st_call' = Call("get_image", farm_id, image_path, fault, 0, {})
                /\ st_ret' = S3Storage_get_image(farm_id, image_path, fault)
    /\ UNCHANGED <<backend, store, pd_vars, fi_vars, gf_vars, tm_vars, cc_vars>>

FarmExists ==
    /\ st_call = NoCall
    /\ \E farm_id \in FarmArgs :
        \/ /\ backend = "local"
           /\ st_call' = Call("farm_exists", farm_id, <<>>, "none", 0, {})
           /\ st_ret' = LocalStorage_farm_exists(farm_id)
        \/ /\ backend = "s3"
           /\ \E fault \in {"none", "ClientError"} :
                /\ st_call' = Call("farm_exists", farm_id, <<>>, fault, 0, {})
                /\ st_ret' = S3Storage_farm_exists(farm_id, fault)
    /\ UNCHANGED <<backend, store, pd_vars, fi_vars, gf_vars, tm_vars, cc_vars>>

ImageExists ==
    /\ st_call = NoCall
    /\ \E farm_id \in FarmArgs, image_path \in PathArgs :
        \/ /\ backend = "local"
           /\ st_call' = Call("image_exists", farm_id, image_path, "none", 0, {})
           /\ st_ret' = LocalStorage_image_exists(farm_id, image_path)
        \/ /\ backend = "s3"
           /\ \E fault \in {"none", "ClientError", "BotoCoreError"} :
                /\ st_call' = Call("image_exists", farm_id, image_path, fault, 0, {})
                /\ st_ret' = S3Storage_image_exists(farm_id, image_path, fault)
    /\ UNCHANGED <<backend, store, pd_vars, fi_vars, gf_vars, tm_vars, cc_vars>>

StorageNext == ListFarms \/ ListImages \/ GetImage \/ FarmExists \/ ImageExists

SpecStorage == StorageInit /\ [][StorageNext]_vars

(***************************************************************************)
(* Properties of the storage backends                                       *)
(***************************************************************************)
\* names of the top-level directories (local) or first key segments (S3)
TopLevelDirs ==
    {SubSeq(k, 1, (CHOOSE i \in 1..Len(k) : k[i] = "/" /\ \A j \in 1..(i - 1) : k[j] # "/") - 1) :
        k \in {x \in DOMAIN store : \E i \in 1..Len(x) : x[i] = "/"}}

Ascending(r) == \A i, j \in 1..Len(r) : i < j => StrLess(r[i], r[j])

\* C5: list_farms of both backends returns the farm ids in ascending order
\* without duplicates and never the sentinel "0"; when the listing succeeds
\* they are exactly the top-level directories other than "0" (entries of the
\* root that are not directories are not listed), so that a root holding
\* {"0", "alpha", "beta"} gives exactly ["alpha", "beta"].
C5_ListFarmsSorted ==
    st_call.op = "list_farms" =>
        /\ st_ret.kind = "return"
        /\ Ascending(st_ret.value)
        /\ <<"0">> \notin Range(st_ret.value)
        /\ st_call.fault = "none" =>
              /\ Range(st_ret.value) = TopLevelDirs \ {<<"0">>, <<>>}
              /\ TopLevelDirs = {Chars("0"), Chars("alpha"), Chars("beta")}
                    => st_ret.value = <<Chars("alpha"), Chars("beta")>>

C5_Witness ==
    /\ backend = "local"
    /\ st_call.op = "list_farms"
    /\ st_call.fault = "none"
    /\ TopLevelDirs = {Chars("0"), Chars("alpha"), Chars("beta")}
    /\ Chars("readme.png") \in DOMAIN store
    /\ st_ret = Return(<<Chars("alpha"), Chars("beta")>>)

\* paths, relative to the farm, of the image files stored at any depth under it
FarmImages(farm_id) ==
    {SubSeq(k, Len(farm_id) + 2, Len(k)) :
        k \in {x \in DOMAIN store : /\ startswith(x, farm_id \o <<"/">>)
                                     /\ x[Len(x)] # "/"
                                     /\ is_image_name(x)}}

\* C6: list_images(farm_id) returns exactly the files found at any depth under
\* the farm whose name ends, in any letter case, with .tif, .tiff, .png, .jpg
\* or .jpeg, each once, as its path relative to the farm; no other file.
C6_ListImagesExact ==
    (st_call.op = "list_images" /\ st_call.fault = "none" /\ st_call.farm_id # <<>>) =>
        /\ st_ret.kind = "return"
        /\ Range(st_ret.value) = FarmImages(st_call.farm_id)
        /\ Len(st_ret.value) = Cardinality(FarmImages(st_call.farm_id))

\* C7: when enumeration of the underlying storage fails, list_farms and
\* list_images of both backends return an empty sequence and raise nothing.
C7_FailureGivesEmpty ==
    (st_call.op \in {"list_farms", "list_images"} /\ st_call.fault # "none") =>
        st_ret = Return(<<>>)

\* image_exists of the active backend, answered by the store
image_exists(farm_id, image_path) ==
    IF backend = "local" THEN LocalStorage_image_exists(farm_id, image_path)
    ELSE S3Storage_image_exists(farm_id, image_path, "none")

\* C8: for every farm id and relative path, in both backends, when the store
\* answers the request: get_image returns the stored bytes when image_exists
\* reports true and fails with FileNotFoundError when it reports false; bytes
\* are never returned for an absent image.
C8_GetImageOrNotFound ==
    st_call.op = "get_image" =>
        LET full_path == path_join(path_join(base_path, st_call.farm_id),
                                   st_call.image_path)
            key == IF backend = "local" /\ isfile(full_path)
                   THEN below_base(lookup(full_path)[2])
                   ELSE st_call.farm_id \o <<"/">> \o st_call.image_path
            ex == image_exists(st_call.farm_id, st_call.image_path)
        IN /\ st_ret.kind = "return" => (key \in DOMAIN store /\ st_ret.value = store[key])
           /\ st_call.fault = "none" =>
                 /\ ex = Return(TRUE) => st_ret = Return(store[key])
                 /\ ex = Return(FALSE) => st_ret = Raise("FileNotFoundError")
                 /\ ex \in {Return(TRUE), Return(FALSE)}

C8_Witness ==
    /\ backend = "s3"
    /\ st_call.op = "get_image"
    /\ st_call.fault = "none"
    /\ st_call.farm_id = Chars("alpha")
    /\ st_call.image_path = Chars("2024/a.png")
    /\ Chars("alpha/b.TIF") \in DOMAIN store
    /\ st_ret = Raise("FileNotFoundError")

\* the file of the dataset is inside the directory (or prefix) of the farm
InsideFarm(k, farm_id) == farm_id = <<>> \/ startswith(k, farm_id \o <<"/">>)

\* C29: path confinement: for every farm id and image path, paths with '..'
\* segments and absolute paths included, get_image returns the bytes of a
\* file inside the directory of the farm only, and image_exists reports such
\* a file only.
C29_PathConfined ==
    /\ (st_call.op = "get_image" /\ st_ret.kind = "return") =>
          \E k \in DOMAIN store : st_ret.value = store[k] /\ InsideFarm(k, st_call.farm_id)
    /\ (st_call.op = "image_exists" /\ st_ret.value /\ backend = "local") =>
          \E full_path \in {path_join(path_join(base_path, st_call.farm_id),
                                      st_call.image_path)} :
             InsideFarm(below_base(lookup(full_path)[2]), st_call.farm_id)

\* what list_farms() of the active backend returns on the dataset `store`
ListedFarms ==
    Range(IF backend = "local" THEN LocalStorage_list_farms("none").value
          ELSE S3Storage_list_farms(0).value)

\* C28: farm_exists(f) is true exactly for the ids that list_farms() returns,
\* in both backends; so it is false for the id "0", for the empty string and
\* for a name that is no top-level directory or prefix of the dataset root.
C28_ExistsIffListed ==
    (st_call.op = "farm_exists" /\ st_call.fault = "none") =>
        (st_ret.value <=> st_call.farm_id \in ListedFarms)

(***************************************************************************)
(* build_farm_index (app.py) over a dataset whose farms come and go         *)
(***************************************************************************)
MaxCalls == 3

\* storage_backend.list_farms() of the active backend
list_farms(fault, fail_at) ==
    IF backend = "local" THEN LocalStorage_list_farms(fault)
    ELSE S3Storage_list_farms(fail_at)

\* a variant of build_farm_index that tests the cached list for truth
\* (`if _FARM_INDEX and not force`), so that an empty index is rebuilt
build_farm_index_truthy(force, listing) ==
    IF _FARM_INDEX # None /\ _FARM_INDEX.list # <<>> /\ ~force
    THEN [index |-> _FARM_INDEX, ret |-> _FARM_INDEX, listed |-> FALSE]
    ELSE LET farm_list == IF listing.kind = "raise" THEN <<>>
                          ELSE [i \in 1..Len(listing.value) |-> [farm_id |-> listing.value[i]]]
         IN [index |-> Some(farm_list), ret |-> Some(farm_list), listed |-> TRUE]

\* listing: the outcome of storage_backend.list_farms(), were it called now
build_farm_index(force, listing) ==
    IF _FARM_INDEX # None /\ ~force
    THEN [index |-> _FARM_INDEX, ret |-> _FARM_INDEX, listed |-> FALSE]
    ELSE LET farm_list == IF listing.kind = "raise" THEN <<>>
                          ELSE [i \in 1..Len(listing.value) |-> [farm_id |-> listing.value[i]]]
         IN [index |-> Some(farm_list), ret |-> Some(farm_list), listed |-> TRUE]

IndexPool ==
    {Chars("0/"), Chars("alpha/"), Chars("beta/"), Chars("Beta/a.png"), Chars("readme.png")}
IndexDatasets == {[k \in ks |-> Blob(k)] : ks \in SUBSET IndexPool}

IndexInit ==
    /\ backend \in {"local", "s3"}
    /\ store \in IndexDatasets
    /\ st_call = NoCall
    /\ st_ret = NotCalled
    /\ ParserIdle
    /\ IndexIdle
    /\ CatalogIdle
    /\ ThumbnailsIdle
    /\ ConcurrentIdle

BuildFarmIndex ==
    /\ fi_calls < MaxCalls
    /\ \E force \in BOOLEAN, fault \in {"none", "OSError"},
          fail_at \in 0..Len(Pages(prefix, TRUE)) :
          LET r == build_farm_index(force, list_farms(fault, fail_at))
          IN /\ (backend = "local" => fail_at = 0)
             /\ (backend = "s3" => fault = "none")
             /\ _FARM_INDEX' = r.index
             /\ fi_ret' = r.ret
             /\ fi_call' = [op |-> "build_farm_index", force |-> force]
             /\ fi_calls' = fi_calls + 1
             /\ list_farms_calls' = list_farms_calls + (IF r.listed THEN 1 ELSE 0)
    /\ UNCHANGED <<pd_vars, st_vars, gf_vars, tm_vars, cc_vars>>

\* farms are added to or removed from the dataset between calls
DatasetChanges ==
    /\ store' \in IndexDatasets \ {store}
    /\ UNCHANGED <<backend, st_call, st_ret, pd_vars, fi_vars, gf_vars, tm_vars, cc_vars>>

IndexNext == BuildFarmIndex \/ DatasetChanges

SpecIndex == IndexInit /\ [][IndexNext]_vars

\* the index a listing of the present dataset gives when it succeeds
FreshIndex ==
    LET ids == sorted(TopLevelDirs \ {<<"0">>, <<>>})
    IN [i \in 1..Len(ids) |-> [farm_id |-> ids[i]]]

\* C9: build_farm_index is memoized: once a call has built the index (an empty
\* index included), every later call with force=false returns the cached list
\* without calling list_farms; a call with force=true always calls list_farms
\* and replaces the cached list with the new result.
C9_Memoized ==
    [][fi_calls' = fi_calls + 1 =>
          /\ (_FARM_INDEX # None /\ ~fi_call'.force) =>
                /\ fi_ret' = _FARM_INDEX
                /\ _FARM_INDEX' = _FARM_INDEX
                /\ list_farms_calls' = list_farms_calls
          /\ fi_call'.force =>
                /\ list_farms_calls' = list_farms_calls + 1
                /\ _FARM_INDEX' \in {Some(FreshIndex), Some(<<>>)}
                /\ fi_ret' = _FARM_INDEX'
          /\ _FARM_INDEX' # None]_vars

C9_Witness ==
    /\ fi_calls = 2
    /\ list_farms_calls = 1
    /\ fi_call = [op |-> "build_farm_index", force |-> FALSE]
    /\ _FARM_INDEX = Some(<<>>)
    /\ fi_ret = Some(<<>>)
    /\ Chars("alpha") \in TopLevelDirs

\* C20: after any sequence of build_farm_index calls, forced or not, with
\* listings that succeed or fail, the cached farm index holds each farm id at
\* most once, in ascending lexicographic order, and never the id "0".
C20_IndexSortedUnique ==
    _FARM_INDEX # None =>
        \A i, j \in 1..Len(_FARM_INDEX.list) :
           /\ i < j => StrLess(_FARM_INDEX.list[i].farm_id, _FARM_INDEX.list[j].farm_id)
           /\ _FARM_INDEX.list[i].farm_id # <<"0">>

\* a forced rebuild after a failed listing, in a bucket that holds the farm "0"
C20_Witness ==
    /\ backend = "s3"
    /\ fi_calls = 3
    /\ list_farms_calls = 2
    /\ fi_call = [op |-> "build_farm_index", force |-> TRUE]
    /\ Chars("0/") \in DOMAIN store
    /\ _FARM_INDEX = Some(<<[farm_id |-> Chars("Beta")], [farm_id |-> Chars("alpha")],
                             [farm_id |-> Chars("beta")]>>)

(***************************************************************************)
(* get_farm_data: the catalog of one farm                                   *)
(***************************************************************************)
MaxImages == 3

\* str(n) of a natural number, as an f-string formats it
RECURSIVE str(_)
str(n) ==
    IF n < 10 THEN <<DigitSeq[n + 1]>>
    ELSE str(n \div 10) \o <<DigitSeq[(n % 10) + 1]>>

month_names ==
    << <<>>, Chars("Jan"), Chars("Feb"), Chars("Mar"), Chars("Apr"), Chars("May"),
       Chars("Jun"), Chars("Jul"), Chars("Aug"), Chars("Sep"), Chars("Oct"),
       Chars("Nov"), Chars("Dec") >>

\* a < b for Python tuples (year, month, day)
TupleLess(a, b) ==
    \/ a[1] < b[1]
    \/ a[1] = b[1] /\ a[2] < b[2]
    \/ a[1] = b[1] /\ a[2] = b[2] /\ a[3] < b[3]

\* list(xs): a list holding the elements of xs
list(xs) == SubSeq(xs, 1, Len(xs))

\* a variant of sort that is not stable: a list that is out of order comes
\* out with its equal keys in reverse order
sort_unstable(xs, keys) ==
    LET n == Len(xs)
        rank(i) == 1 + Cardinality({j \in 1..n :
                          \/ TupleLess(keys[j], keys[i])
                          \/ keys[j] = keys[i] /\ j > i})
    IN IF \A i, j \in 1..n : i < j => ~TupleLess(keys[j], keys[i]) THEN xs
       ELSE [p \in 1..n |-> xs[CHOOSE i \in 1..n : rank(i) = p]]

\* list.sort(key=...): ascending by key, equal keys keep their order;
\* keys[i] is the key of xs[i]
sort(xs, keys) ==
    LET n == Len(xs)
        rank(i) == 1 + Cardinality({j \in 1..n :
                          \/ TupleLess(keys[j], keys[i])
                          \/ keys[j] = keys[i] /\ j < i})
    IN [p \in 1..n |-> xs[CHOOSE i \in 1..n : rank(i) = p]]

HTTPException(status_code, detail) ==
    [kind |-> "raise", exc |-> "HTTPException",
     status_code |-> status_code, detail |-> detail]

\* Optional[int]
NoIndex == [is_none |-> TRUE, value |-> 0]
Index(i) == [is_none |-> FALSE, value |-> i]

\* the annotation document of the user for the farm; <<>> stands for a
\* selected image that is None or ''
NoAnnotation ==
    [found |-> FALSE, selected_image_2024 |-> <<>>, selected_image_2025 |-> <<>>]
Annotation(s2024, s2025) ==
    [found |-> TRUE, selected_image_2024 |-> s2024, selected_image_2025 |-> s2025]

\* one entry of image_data; st: what the filesystem answers for temp_path
image_date(farm_id, img_path, st) ==
    LET temp_path == <<"/">> \o farm_id \o <<"/">> \o img_path
        r == parse_date_from_filename(temp_path, st)
    IN [path |-> img_path,
        date |-> IF r.kind = "raise" THEN <<1900, 1, 1>> ELSE r.value]

\* date_display of a date whose month the table month_names holds
date_display(date) ==
    LET year == date[1]
        month == date[2]
        day == date[3]
    IN IF month > 0
       THEN IF day > 0
            THEN month_names[month + 1] \o <<" ">> \o str(day) \o <<",", " ">> \o str(year)
            ELSE month_names[month + 1] \o <<" ">> \o str(year)
       ELSE IF year > 1900 THEN str(year) ELSE Chars("Unknown")

thumb_data(idx, img_info) ==
    [index |-> idx,
     filename |-> img_info.path,
     date_display |-> date_display(img_info.date),
     sort_date |-> img_info.date,
     original_path |-> img_info.path]

\* a variant of year_bucket that leaves each descriptor its position in the
\* farm-wide list as index
year_bucket_farm_index(image_data, year) ==
    LET all == list([i \in 1..Len(image_data) |-> thumb_data(i - 1, image_data[i])])
        picked == SelectSeq(all, LAMBDA t : t.sort_date[1] = year)
    IN list(sort(picked, [i \in 1..Len(picked) |-> picked[i].sort_date]))

\* a variant of year_bucket that does not group by year
year_bucket_ungrouped(image_data, year) ==
    LET all == list([i \in 1..Len(image_data) |-> thumb_data(i - 1, image_data[i])])
        ordered == list(sort(all, [i \in 1..Len(all) |-> all[i].sort_date]))
    IN list([i \in 1..Len(ordered) |-> [ordered[i] EXCEPT !.index = i - 1]])

\* thumbnails_2024 / thumbnails_2025: the descriptors of the year, sorted and
\* re-indexed from 0
year_bucket(image_data, year) ==
    LET all == list([i \in 1..Len(image_data) |-> thumb_data(i - 1, image_data[i])])
        picked == SelectSeq(all, LAMBDA t : t.sort_date[1] = year)
        ordered == list(sort(picked, [i \in 1..Len(picked) |-> picked[i].sort_date]))
    IN list([i \in 1..Len(ordered) |-> [ordered[i] EXCEPT !.index = i - 1]])

selected_index(thumbnails, selected_image) ==
    LET hits == {i \in 1..Len(thumbnails) : thumbnails[i].filename = selected_image}
    IN IF selected_image = <<>> \/ hits = {} THEN NoIndex
       ELSE Index((CHOOSE i \in hits : \A j \in hits : i <= j) - 1)

\* a variant of catalog that counts the images of the two buckets only
catalog_counting_buckets(farm_id, image_data, existing_annotation) ==
    IF \E i \in 1..Len(image_data) : image_data[i].date[2] >= Len(month_names)
    THEN Raise("IndexError")
    ELSE Return(
         [farm_id |-> farm_id,
          image_count |-> Len(year_bucket(image_data, 2024))
                          + Len(year_bucket(image_data, 2025)),
          thumbnails_2024 |-> year_bucket(image_data, 2024),
          thumbnails_2025 |-> year_bucket(image_data, 2025),
          selected_index_2024 |->
              IF existing_annotation.found
              THEN selected_index(year_bucket(image_data, 2024),
                                  existing_annotation.selected_image_2024)
              ELSE NoIndex,
          selected_index_2025 |->
              IF existing_annotation.found
              THEN selected_index(year_bucket(image_data, 2025),
                                  existing_annotation.selected_image_2025)
              ELSE NoIndex])

\* the response built from the sorted image_data: the loop over image_data,
\* the two buckets, the look-up of the annotated images and the return
catalog(farm_id, image_data, existing_annotation) ==
    IF \E i \in 1..Len(image_data) : image_data[i].date[2] >= Len(month_names)
    THEN Raise("IndexError")
    ELSE Return(
         [farm_id |-> farm_id,
          image_count |-> Len(image_data),
          thumbnails_2024 |-> year_bucket(image_data, 2024),
          thumbnails_2025 |-> year_bucket(image_data, 2025),
          selected_index_2024 |->
              IF existing_annotation.found
              THEN selected_index(year_bucket(image_data, 2024),
                                  existing_annotation.selected_image_2024)
              ELSE NoIndex,
          selected_index_2025 |->
              IF existing_annotation.found
              THEN selected_index(year_bucket(image_data, 2025),
                                  existing_annotation.selected_image_2025)
              ELSE NoIndex])

\* assignment: whether the farm is assigned to the user; exists, image_paths:
\* what farm_exists and list_images of the storage backend answer.  The list
\* of parsed images and the sorted image_data are each built once.
get_farm_data(farm_id, assignment, exists, image_paths, st, existing_annotation) ==
    IF ~assignment THEN HTTPException(403, "This farm is not assigned to you")
    ELSE IF ~exists THEN HTTPException(404, "Farm not found")
    ELSE CHOOSE response \in
           {catalog(farm_id, image_data, existing_annotation) :
              image_data \in
                {list(sort(parsed, [i \in 1..Len(parsed) |-> parsed[i].date])) :
                   parsed \in
                     {list([i \in 1..Len(image_paths) |->
                              image_date(farm_id, image_paths[i], st)])}}} : TRUE

(***************************************************************************)
(* Specification of the catalog: one get_farm_data request on a dataset     *)
(***************************************************************************)
farm_X == Chars("farm_X")

CatalogPool ==
    {Chars("farm_X/"),
     Chars("farm_X/2024/Mar_2024_05.png"),
     Chars("farm_X/2025/2025_6_10.png"),
     Chars("farm_X/2024/2024_3_1.png"),
     Chars("farm_X/2024_13_1.png"),
     Chars("farm_X/2024.png"),
     Chars("farm_X/2023_1_1.png"),
     Chars("farm_X/2025_2_45.png"),
     Chars("farm_X/x.png")}

CatalogDatasets ==
    {[k \in ks |-> Blob(k)] :
        ks \in {x \in SUBSET CatalogPool : Cardinality(x) <= MaxImages}}

CatalogFarmArgs == {farm_X, Chars("ghost")}

Annotations ==
    {NoAnnotation,
     Annotation(Chars("2024/Mar_2024_05.png"), <<>>),
     Annotation(Chars("2024/gone.png"), Chars("2025/2025_6_10.png"))}

\* storage_backend.farm_exists(farm_id) of the active backend
farm_exists(farm_id, fault) ==
    IF backend = "local" THEN LocalStorage_farm_exists(farm_id)
    ELSE S3Storage_farm_exists(farm_id, fault)

\* what storage_backend.list_images(farm_id) can answer: [fault, value], the
\* fault being "none" when every directory is read and every page arrives
list_images(farm_id) ==
    IF backend = "local"
    THEN LET farm_path == path_join(base_path, farm_id)
             top == IF isdir(farm_path) THEN below_base(lookup(farm_path)[2]) ELSE <<>>
             inside == IF isdir(farm_path)
                       THEN {d \in LocalDirs \cup {<<>>} : d = top \/ IsUnder(top, d)}
                       ELSE {}
         IN UNION {{[fault |-> IF bad = {} THEN "none" ELSE "OSError",
                     value |-> LocalStorage_list_images(farm_id, bad, order).value] :
                       order \in Orders(IF isdir(farm_path) THEN walk_files(top, bad)
                                        ELSE {})} :
                   bad \in {{}} \cup {{d} : d \in inside}}
    ELSE {[fault |-> IF fail_at = 0 THEN "none" ELSE "ClientError",
           value |-> S3Storage_list_images(farm_id, fail_at).value] :
             fail_at \in 0..Len(Pages(prefix \o farm_id \o <<"/">>, FALSE))}

CatalogInit ==
    /\ backend \in {"local", "s3"}
    /\ store \in CatalogDatasets
    /\ st_call = NoCall
    /\ st_ret = NotCalled
    /\ ParserIdle
    /\ IndexIdle
    /\ CatalogIdle
    /\ ThumbnailsIdle
    /\ ConcurrentIdle

GetFarmData ==
    /\ gf_call = NoCall
    /\ \E farm_id \in CatalogFarmArgs, assignment \in BOOLEAN,
          fault \in {"none", "ClientError"},
          existing_annotation \in Annotations, st \in Stats :
          LET exists == farm_exists(farm_id, fault).value
          IN /\ (backend = "local" => fault = "none")
             /\ \E listing \in (IF assignment /\ exists THEN list_images(farm_id)
                                ELSE {[fault |-> "none", value |-> <<>>]}) :
                   /\ gf_call' = [op |-> "get_farm_data", farm_id |-> farm_id,
                                  assignment |-> assignment,
                                  farm_exists |-> exists, exists_fault |-> fault,
                                  image_paths |-> listing.value,
                                  list_fault |-> listing.fault, st |-> st,
                                  existing_annotation |-> existing_annotation]
                   /\ gf_ret' = get_farm_data(farm_id, assignment, exists,
                                              listing.value, st, existing_annotation)
    /\ UNCHANGED <<pd_vars, st_vars, fi_vars, tm_vars, cc_vars>>

CatalogNext == GetFarmData

SpecCatalog == CatalogInit /\ [][CatalogNext]_vars

(***************************************************************************)
(* Properties of the catalog                                                *)
(***************************************************************************)
CatalogCalled == gf_call.op = "get_farm_data"

\* the request is for a farm assigned to the caller and the storage backend
\* answers without a fault
Served ==
    /\ CatalogCalled
    /\ gf_call.assignment
    /\ gf_call.exists_fault = "none"
    /\ gf_call.list_fault = "none"

ScenarioFarm ==
    /\ DOMAIN store = {Chars("farm_X/2024/Mar_2024_05.png"),
                       Chars("farm_X/2025/2025_6_10.png")}
    /\ Served
    /\ gf_call.farm_id = farm_X

BucketDates(thumbnails) == [i \in 1..Len(thumbnails) |-> thumbnails[i].sort_date]

\* C3: for a farm farm_X whose storage holds exactly 2024/Mar_2024_05.png and
\* 2025/2025_6_10.png, get_farm_data returns image_count = 2, a 2024 bucket
\* with exactly one descriptor, dated (2024,3,1), and a 2025 bucket with
\* exactly one descriptor, dated (2025,6,10).
C3_ScenarioCatalog ==
    ScenarioFarm =>
        /\ gf_ret.kind = "return"
        /\ gf_ret.value.image_count = 2
        /\ BucketDates(gf_ret.value.thumbnails_2024) = << <<2024, 3, 1>> >>
        /\ BucketDates(gf_ret.value.thumbnails_2025) = << <<2025, 6, 10>> >>

C3_Witness ==
    /\ ScenarioFarm
    /\ gf_ret.kind = "return"
    /\ gf_ret.value.thumbnails_2024[1].filename = Chars("2024/Mar_2024_05.png")
    /\ gf_ret.value.thumbnails_2024[1].date_display = Chars("Mar 1, 2024")

\* C3 as stated: the descriptor of the 2024 bucket is dated (2024,3,5)
C3_ScenarioDay5 ==
    ScenarioFarm =>
        /\ gf_ret.kind = "return"
        /\ gf_ret.value.image_count = 2
        /\ BucketDates(gf_ret.value.thumbnails_2024) = << <<2024, 3, 5>> >>
        /\ BucketDates(gf_ret.value.thumbnails_2025) = << <<2025, 6, 10>> >>

\* C10: for a farm assigned to the caller, get_farm_data fails with
\* 'Farm not found' exactly when the storage backend reports the farm absent,
\* and for every farm reported present it returns a catalog, whatever the
\* names of the farm's image files are.
C10_CatalogOrNotFound ==
    (CatalogCalled /\ gf_call.assignment) =>
        /\ gf_ret = HTTPException(404, "Farm not found") <=> ~gf_call.farm_exists
        /\ gf_call.farm_exists => gf_ret.kind = "return"

\* position of a path in the list that list_images returned
ListedAt(path) == CHOOSE i \in 1..Len(gf_call.image_paths) : gf_call.image_paths[i] = path

Buckets == {gf_ret.value.thumbnails_2024, gf_ret.value.thumbnails_2025}

\* C11: in each year bucket get_farm_data returns, the descriptors are in
\* ascending lexicographic order of their (year, month, day) tuple, two
\* descriptors with equal tuples keep the relative order in which list_images
\* returned them, and a year-only entry (month 0) precedes every dated entry
\* of the same year.
C11_BucketsSortedStable ==
    (CatalogCalled /\ gf_ret.kind = "return") =>
        \A b \in Buckets : \A i, j \in 1..Len(b) :
            i < j =>
               /\ ~TupleLess(b[j].sort_date, b[i].sort_date)
               /\ b[i].sort_date = b[j].sort_date
                     => ListedAt(b[i].filename) < ListedAt(b[j].filename)
               /\ (b[j].sort_date[2] = 0 /\ b[i].sort_date[1] = b[j].sort_date[1])
                     => b[i].sort_date[2] = 0

C11_Witness ==
    /\ CatalogCalled
    /\ gf_call.image_paths = <<Chars("2024/Mar_2024_05.png"), Chars("2024/2024_3_1.png"),
                               Chars("2024.png")>>
    /\ gf_ret.kind = "return"
    /\ BucketDates(gf_ret.value.thumbnails_2024)
          = << <<2024, 0, 0>>, <<2024, 3, 1>>, <<2024, 3, 1>> >>
    /\ gf_ret.value.thumbnails_2024[2].filename = Chars("2024/Mar_2024_05.png")
    /\ gf_ret.value.thumbnails_2024[3].filename = Chars("2024/2024_3_1.png")

\* C19: every capture date that parse_date_from_filename returns and
\* get_farm_data places in a descriptor has its month in 0..12 and its day
\* in 0..31.
C19_DatesInRange ==
    (CatalogCalled /\ gf_ret.kind = "return") =>
        \A bucket \in Buckets : \A i \in 1..Len(bucket) :
           /\ bucket[i].sort_date[2] \in 0..12
           /\ bucket[i].sort_date[3] \in 0..31

\* the year parse_date_from_filename gave the listed path in the request
ParsedYear(path) == image_date(gf_call.farm_id, path, gf_call.st).date[1]

\* how many descriptors of the bucket carry the path
TimesIn(thumbnails, path) ==
    Cardinality({i \in 1..Len(thumbnails) : thumbnails[i].filename = path})

\* how many entries of the listing are the path
TimesListed(path) ==
    Cardinality({i \in 1..Len(gf_call.image_paths) : gf_call.image_paths[i] = path})

\* C22: get_farm_data partitions the listed images by parsed year: a listed
\* image is in the 2024 bucket iff its parsed year is 2024 and in the 2025
\* bucket iff its parsed year is 2025, as often as it is listed and in no
\* more than one bucket, the buckets hold listed images only, and image_count
\* is the number of all listed images, those of other years included.
C22_PartitionByYear ==
    (CatalogCalled /\ gf_ret.kind = "return") =>
        \E r \in {gf_ret.value} :
           /\ r.image_count = Len(gf_call.image_paths)
           /\ \A path \in Range(gf_call.image_paths) :
                 \E year \in {ParsedYear(path)} :
                    /\ TimesIn(r.thumbnails_2024, path)
                          = IF year = 2024 THEN TimesListed(path) ELSE 0
                    /\ TimesIn(r.thumbnails_2025, path)
                          = IF year = 2025 THEN TimesListed(path) ELSE 0
           /\ \A bucket \in Buckets : \A i \in 1..Len(bucket) :
                 bucket[i].filename \in Range(gf_call.image_paths)

\* three listed images: one of 2024, one of 2025 and one of 2023, which is in
\* neither bucket and is counted
C22_Witness ==
    /\ Served
    /\ gf_ret.kind = "return"
    /\ Range(gf_call.image_paths) = {Chars("2024/2024_3_1.png"), Chars("2025_2_45.png"),
                                      Chars("2023_1_1.png")}
    /\ gf_ret.value.image_count = 3
    /\ Len(gf_ret.value.thumbnails_2024) = 1
    /\ gf_ret.value.thumbnails_2024[1].filename = Chars("2024/2024_3_1.png")
    /\ Len(gf_ret.value.thumbnails_2025) = 1
    /\ gf_ret.value.thumbnails_2025[1].filename = Chars("2025_2_45.png")

\* C23: in each bucket get_farm_data returns, the index fields of the
\* descriptors are 0, 1, ..., n-1 in bucket order, whatever the positions of
\* the descriptors in the farm-wide sorted list are.
C23_BucketIndexes ==
    (CatalogCalled /\ gf_ret.kind = "return") =>
        \A bucket \in Buckets : \A i \in 1..Len(bucket) : bucket[i].index = i - 1

\* the only image of 2025 is the third of the farm-wide list and has index 0
C23_Witness ==
    /\ Served
    /\ gf_ret.kind = "return"
    /\ Range(gf_call.image_paths) = {Chars("2023_1_1.png"), Chars("2024.png"),
                                      Chars("2025/2025_6_10.png")}
    /\ Len(gf_ret.value.thumbnails_2025) = 1
    /\ gf_ret.value.thumbnails_2025[1].filename = Chars("2025/2025_6_10.png")
    /\ gf_ret.value.thumbnails_2025[1].index = 0
    /\ gf_ret.value.thumbnails_2024[1].index = 0

(***************************************************************************)
(* make_thumbnail (image_utils.py): the thumbnail cache                     *)
(***************************************************************************)
NumCallers == 2
MaxThumbCalls == 2
MaxChanges == 1

Callers == 1..NumCallers

\* os.path.join(ROOT_DIR, 'thumbnail_cache')
THUMB_CACHE_DIR == Chars("/app/thumbnail_cache")

\* hashlib.sha256(text.encode('utf-8')).hexdigest(): one digest per text
sha256(text) == <<"sha256 of">> \o text

thumb_name(source_path, width, height) ==
    sha256(source_path) \o <<"_">> \o str(width) \o <<"x">> \o str(height) \o Chars(".png")

thumb_path_of(source_path, width, height) ==
    path_join(THUMB_CACHE_DIR, thumb_name(source_path, width, height))

\* A source file: version stands for its content, bands for the number of
\* bands of the raster; rasterio and pil tell whether rasterio.open/read and
\* Image.open/convert succeed on it.
Missing == [exists |-> FALSE, version |-> 0, bands |-> 0, rasterio |-> FALSE, pil |-> FALSE]
SourceFile(version, bands, rasterio, pil) ==
    [exists |-> TRUE, version |-> version, bands |-> bands,
     rasterio |-> rasterio, pil |-> pil]

\* A file of the cache directory: gen counts the files created under the name
\* (a writer writes to the file it opened); bytes is <<>> or <<image>>.
NoFile == [exists |-> FALSE, complete |-> FALSE, bytes |-> <<>>, gen |-> 0]

\* the image a route renders, already reduced to fit (width, height)
Image(route, rgb, f, width, height) ==
    [route |-> route, rgb |-> rgb, version |-> f.version, box |-> <<width, height>>]

Rendered(im) == [ok |-> TRUE, im |-> <<im>>]
Failed == [ok |-> FALSE, im |-> <<>>]

\* lines 118-172: rasterio.open, read, band selection, normalisation, thumbnail
rasterio_render(f, width, height) ==
    IF ~f.exists \/ ~f.rasterio THEN Failed
    ELSE IF f.bands >= 4 THEN Rendered(Image("rasterio", <<2, 1, 0>>, f, width, height))
    ELSE IF f.bands = 3 THEN Rendered(Image("rasterio", <<0, 1, 2>>, f, width, height))
    ELSE IF f.bands = 1 THEN Rendered(Image("rasterio", <<0, 0, 0>>, f, width, height))
    ELSE Failed

\* lines 180-208 and 216-218: Image.open, conversion to RGB, thumbnail; the
\* bands are those Pillow decodes, in the order of the file
pil_render(route, f, width, height) ==
    IF ~f.exists \/ ~f.pil THEN Failed
    ELSE Rendered(Image(route, <<"as decoded">>, f, width, height))

render(route, f, width, height) ==
    IF route = "rasterio" THEN rasterio_render(f, width, height)
    ELSE pil_render(route, f, width, height)

\* a variant of is_cached that never finds the cache file
is_cached_never(cache, thumb_path) == FALSE

\* line 110: os.path.isfile(thumb_path)
is_cached(cache, thumb_path) == cache[thumb_path].exists

is_tiff(source_path) ==
    \/ endswith(lower(source_path), Chars(".tif"))
    \/ endswith(lower(source_path), Chars(".tiff"))

NoLocals ==
    [source_path |-> <<>>, width |-> 0, height |-> 0, thumb_path |-> <<>>,
     route |-> "none", im |-> <<>>, gen |-> 0, created |-> FALSE, renders |-> 0,
     alone |-> TRUE, changes |-> 0, cached |-> NoFile]

\* what a call that returns leaves in tm_log: ret is <<>> (None) or
\* <<thumb_path>>; cached and file are the cache file under thumb_path when
\* the call began and when it returned, source the source file at the return;
\* began and ended count the changes of the source made before each; alone
\* tells that no other call was under way during the call
Returned(c, l, ret, cache) ==
    [caller |-> c, source_path |-> l.source_path, width |-> l.width, height |-> l.height,
     thumb_path |-> l.thumb_path, ret |-> ret, renders |-> l.renders,
     hit |-> (ret # <<>> /\ l.renders = 0),
     file |-> IF l.thumb_path \in DOMAIN cache THEN cache[l.thumb_path] ELSE NoFile,
     alone |-> l.alone, began |-> l.changes, ended |-> src_changes,
     cached |-> l.cached, source |-> src_files[l.source_path]]

(***************************************************************************)
(* Specification of the thumbnail cache: callers in any interleaving        *)
(***************************************************************************)
SourcePaths == {Chars("/data/farm_X/a.TIF"), Chars("/data/farm_X/b.png")}
Sizes == {<<300, 300>>, <<64, 48>>}

\* the source files the model draws from
SourceKinds(source_path) ==
    IF is_tiff(source_path)
    THEN {SourceFile(1, 4, TRUE, FALSE), SourceFile(1, 3, TRUE, TRUE),
          SourceFile(1, 2, TRUE, TRUE), SourceFile(1, 2, TRUE, FALSE),
          SourceFile(1, 1, TRUE, FALSE)}
    ELSE {SourceFile(1, 3, FALSE, TRUE), SourceFile(1, 2, FALSE, TRUE),
          SourceFile(1, 3, FALSE, FALSE)}

ThumbPaths == {thumb_path_of(sp, z[1], z[2]) : sp \in SourcePaths, z \in Sizes}

\* one source file, of any kind, is followed through the calls made for it
ThumbInit ==
    /\ src_files \in UNION {[{sp} -> SourceKinds(sp)] : sp \in SourcePaths}
    /\ thumb_cache = [tp \in ThumbPaths |-> NoFile]
    /\ tm_pc = [c \in Callers |-> "idle"]
    /\ tm_local = [c \in Callers |-> NoLocals]
    /\ tm_log = <<>>
    /\ tm_calls = 0
    /\ src_changes = 0
    /\ ParserIdle
    /\ StorageIdle
    /\ IndexIdle
    /\ CatalogIdle
    /\ ConcurrentIdle

\* tm_log after the call e has returned
Logged(e) == IF Len(tm_log) < 2 THEN Append(tm_log, e) ELSE Append(Tail(tm_log), e)

\* the call of caller c returns ret
Return_(c, l, ret, cache) ==
    /\ tm_log' = Logged(Returned(c, l, ret, cache))
    /\ tm_pc' = [tm_pc EXCEPT ![c] = "idle"]
    /\ tm_local' = [tm_local EXCEPT ![c] = NoLocals]

\* an exception in the body: the rasterio route falls back to Pillow
\* (line 177), every other route returns None (lines 212, 221)
Except_(c, l, cache) ==
    IF l.route = "rasterio"
    THEN /\ tm_local' = [tm_local EXCEPT ![c] = [l EXCEPT !.route = "pil", !.im = <<>>]]
         /\ tm_pc' = [tm_pc EXCEPT ![c] = "render"]
         /\ UNCHANGED tm_log
    ELSE Return_(c, l, <<>>, cache)

\* lines 98-108: the call starts, tests the source and names the cache file;
\* the callers being alike, the call is made by the first idle one
MakeThumbnail(c) ==
    /\ tm_pc[c] = "idle"
    /\ \A o \in Callers : o < c => tm_pc[o] # "idle"
    /\ tm_calls < MaxThumbCalls
    /\ tm_calls' = tm_calls + 1
    /\ \E source_path \in DOMAIN src_files, size \in Sizes :
          LET others == {o \in Callers \ {c} : tm_pc[o] # "idle"}
              l == [NoLocals EXCEPT !.source_path = source_path,
                                    !.width = size[1], !.height = size[2],
                                    !.thumb_path = thumb_path_of(source_path, size[1], size[2]),
                                    !.alone = (others = {}),
                                    !.changes = src_changes,
                                    !.cached = thumb_cache[thumb_path_of(source_path,
                                                                          size[1], size[2])]]
          IN IF ~src_files[source_path].exists
             THEN /\ tm_log' = Logged(Returned(c, l, <<>>, thumb_cache))
                  /\ UNCHANGED <<tm_pc, tm_local>>
             ELSE /\ tm_pc' = [tm_pc EXCEPT ![c] = "cache_test"]
                  /\ tm_local' = [o \in Callers |->
                                    IF o = c THEN l
                                    ELSE [tm_local[o] EXCEPT !.alone = (tm_pc[o] = "idle")]]
                  /\ UNCHANGED tm_log
    /\ UNCHANGED <<src_files, thumb_cache, src_changes>>
    /\ UNCHANGED <<pd_vars, st_vars, fi_vars, gf_vars, cc_vars>>

\* lines 110-115: the cache file exists, or the route is chosen
CacheTest(c) ==
    /\ tm_pc[c] = "cache_test"
    /\ LET l == tm_local[c]
       IN IF is_cached(thumb_cache, l.thumb_path)
          THEN Return_(c, l, <<l.thumb_path>>, thumb_cache)
          ELSE /\ tm_pc' = [tm_pc EXCEPT ![c] = "render"]
               /\ tm_local' = [tm_local EXCEPT ![c] =
                                 [l EXCEPT !.route = IF is_tiff(l.source_path)
                                                     THEN "rasterio" ELSE "standard"]]
               /\ UNCHANGED tm_log
    /\ UNCHANGED <<src_files, thumb_cache, tm_calls, src_changes>>
    /\ UNCHANGED <<pd_vars, st_vars, fi_vars, gf_vars, cc_vars>>

\* the source is opened, read and rendered on the route of the call
Render(c) ==
    /\ tm_pc[c] = "render"
    /\ LET l0 == tm_local[c]
           l == [l0 EXCEPT !.renders = l0.renders + 1]
           r == render(l.route, src_files[l.source_path], l.width, l.height)
       IN IF r.ok
          THEN /\ tm_pc' = [tm_pc EXCEPT ![c] = "save"]
               /\ tm_local' = [tm_local EXCEPT ![c] = [l EXCEPT !.im = r.im]]
               /\ UNCHANGED tm_log
          ELSE Except_(c, l, thumb_cache)
    /\ UNCHANGED <<src_files, thumb_cache, tm_calls, src_changes>>
    /\ UNCHANGED <<pd_vars, st_vars, fi_vars, gf_vars, cc_vars>>

\* im.save(thumb_path): the file is opened for writing, which creates it or
\* empties the file already there; or the open fails
SaveOpen(c) ==
    /\ tm_pc[c] = "save"
    /\ LET l == tm_local[c]
           old == thumb_cache[l.thumb_path]
           gen == IF old.exists THEN old.gen ELSE old.gen + 1
       IN \/ /\ thumb_cache' = [thumb_cache EXCEPT ![l.thumb_path] =
                                  [exists |-> TRUE, complete |-> FALSE,
                                   bytes |-> <<>>, gen |-> gen]]
             /\ tm_local' = [tm_local EXCEPT ![c] =
                               [l EXCEPT !.gen = gen, !.created = ~old.exists]]
             /\ tm_pc' = [tm_pc EXCEPT ![c] = "write"]
             /\ UNCHANGED tm_log
          \/ /\ UNCHANGED thumb_cache
             /\ Except_(c, l, thumb_cache)
    /\ UNCHANGED <<src_files, tm_calls, src_changes>>
    /\ UNCHANGED <<pd_vars, st_vars, fi_vars, gf_vars, cc_vars>>

\* im.save(thumb_path): the PNG is written and the file closed, and the call
\* returns thumb_path; or the encoder fails, and Pillow removes the file if
\* the save created it (older releases leave it)
SaveWrite(c) ==
    /\ tm_pc[c] = "write"
    /\ LET l == tm_local[c]
           old == thumb_cache[l.thumb_path]
           mine == old.exists /\ old.gen = l.gen
       IN \/ LET cache == IF mine
                          THEN [thumb_cache EXCEPT ![l.thumb_path] =
                                  [old EXCEPT !.complete = TRUE, !.bytes = l.im]]
                          ELSE thumb_cache
             IN /\ thumb_cache' = cache
                /\ Return_(c, l, <<l.thumb_path>>, cache)
          \/ \E removes \in BOOLEAN :
                LET cache == IF removes /\ l.created /\ old.exists
                             THEN [thumb_cache EXCEPT ![l.thumb_path] =
                                     [NoFile EXCEPT !.gen = old.gen]]
                             ELSE thumb_cache
                IN /\ thumb_cache' = cache
                   /\ Except_(c, l, cache)
    /\ UNCHANGED <<src_files, tm_calls, src_changes>>
    /\ UNCHANGED <<pd_vars, st_vars, fi_vars, gf_vars, cc_vars>>

\* a source file is replaced by another capture, damaged or removed
SourceChanges ==
    /\ src_changes < MaxChanges
    /\ \E sp \in DOMAIN src_files :
          \E f \in {[src_files[sp] EXCEPT !.version = 2], Missing} \ {src_files[sp]} :
             src_files' = [src_files EXCEPT ![sp] = f]
    /\ src_changes' = src_changes + 1
    /\ UNCHANGED <<thumb_cache, tm_pc, tm_local, tm_log, tm_calls>>
    /\ UNCHANGED <<pd_vars, st_vars, fi_vars, gf_vars, cc_vars>>

ThumbNext ==
    \/ \E c \in Callers : MakeThumbnail(c)
    \/ \E c \in Callers : CacheTest(c)
    \/ \E c \in Callers : Render(c)
    \/ \E c \in Callers : SaveOpen(c)
    \/ \E c \in Callers : SaveWrite(c)
    \/ SourceChanges

SpecThumb == ThumbInit /\ [][ThumbNext]_vars

(***************************************************************************)
(* Properties of the thumbnail cache                                        *)
(***************************************************************************)
LogEntries == {tm_log[i] : i \in 1..Len(tm_log)}

SameKey(e1, e2) ==
    /\ e1.source_path = e2.source_path
    /\ e1.width = e2.width
    /\ e1.height = e2.height

\* tm_log holds two consecutive calls for one key: neither overlaps another
\* call, and the source is not touched from the start of the first to the
\* return of the second
TwoConsecutive ==
    /\ Len(tm_log) = 2
    /\ SameKey(tm_log[1], tm_log[2])
    /\ tm_log[1].alone /\ tm_log[2].alone
    /\ tm_log[1].began = tm_log[2].ended

C13_NoPartialEntryReturned ==
    \A e \in LogEntries : e.hit => e.file.complete

\* C14: whenever a cache entry exists for (source path, width, height) when a
\* call is made, make_thumbnail returns that entry unchanged and does not
\* render, whatever the content or state of the source is.
C14_HitIgnoresSource ==
    \A e \in LogEntries :
        (e.alone /\ e.cached.exists /\ e.cached.complete) =>
            /\ e.ret = <<e.thumb_path>>
            /\ e.renders = 0
            /\ e.file = e.cached

\* C15: a raster of 2 bands is rejected: make_thumbnail returns None for it
\* and writes no cache entry.
C15_TwoBandsRejected ==
    \A e \in LogEntries :
        (e.source.exists /\ e.source.bands = 2 /\ e.began = e.ended) =>
            /\ e.ret = <<>>
            /\ ~e.file.exists

C25_FailureLeavesNoFile ==
    /\ \A e \in LogEntries :
          (e.alone /\ e.renders > 0 /\ e.ret = <<>> /\ ~e.cached.exists) => ~e.file.exists
    /\ (TwoConsecutive /\ tm_log[1].renders > 0 /\ tm_log[1].ret = <<>>
           /\ ~tm_log[1].cached.exists)
          => ~tm_log[2].hit

(***************************************************************************)
(* Construction of the storage backend (get_storage, S3Storage.__init__)   *)
(***************************************************************************)
\* os.getenv: a variable that is not set gives the default
Unset == <<"None">>
getenv(env, name, default) == IF env[name] = Unset THEN default ELSE env[name]

\* an exception: its class and the arguments it was made with
Exception(type, args) == [type |-> type, args |-> args]
ValueError(args) == Exception("ValueError", args)

\* the storage objects
S3Storage(bucket_name, region) ==
    [class |-> "S3Storage", bucket_name |-> bucket_name, region |-> region,
     prefix |-> prefix, base_path |-> <<>>]
LocalStorage(path) ==
    [class |-> "LocalStorage", bucket_name |-> <<>>, region |-> <<>>,
     prefix |-> <<>>, base_path |-> path]

\* S3Storage.__init__: boto3.client, then head_bucket, which raises
\* NoCredentialsError when no credentials are found, a ClientError with the
\* status of the error response, or another botocore error when no response
\* arrives (not caught)
S3Storage_init(bucket_name, region, env) ==
    IF ~env.credentials
    THEN Raise(ValueError(<<"AWS credentials not found. Set AWS_ACCESS_KEY_ID and AWS_SECRET_ACCESS_KEY">>))
    ELSE IF env.head_bucket = "200" THEN Return(S3Storage(bucket_name, region))
    ELSE IF env.head_bucket = "unreachable"
         THEN Raise(Exception("EndpointConnectionError", <<>>))
    ELSE IF env.head_bucket = "404"
         THEN Raise(ValueError(<<"S3 bucket not found: ", bucket_name>>))
    ELSE IF env.head_bucket = "403"
         THEN Raise(ValueError(<<"Access denied to S3 bucket: ", bucket_name>>))
    ELSE Raise(ValueError(<<"S3 connection error: ", env.head_bucket>>))

\* LocalStorage.__init__
LocalStorage_init(path, env) ==
    IF ~env.base_path_exists
    THEN Raise(ValueError(<<"Base path does not exist: ", path>>))
    ELSE Return(LocalStorage(path))

get_storage(env) ==
    LET use_s3 == lower(getenv(env, "USE_S3", Chars("false"))) = Chars("true")
        bucket_name == getenv(env, "S3_BUCKET_NAME", Unset)
        region == getenv(env, "AWS_REGION", Chars("ap-south-1"))
    IN IF use_s3
       THEN IF bucket_name = Unset \/ bucket_name = <<>>
            THEN Raise(ValueError(<<"S3_BUCKET_NAME not set in environment variables">>))
            ELSE S3Storage_init(bucket_name, region, env)
       ELSE LocalStorage_init(base_path, env)

\* the environments of the process: the variables, whether the local dataset
\* directory exists, whether boto3 finds credentials, and what the service
\* answers to head_bucket; what a configuration does not read is left at
\* one value
Environments ==
    {env \in [USE_S3 : {Unset, Chars("True"), Chars("false")},
              S3_BUCKET_NAME : {Unset, Chars("farms")},
              AWS_REGION : {Unset, Chars("eu-west-1")},
              base_path_exists : BOOLEAN,
              credentials : BOOLEAN,
              head_bucket : {"200", "404", "403", "500", "unreachable"}] :
        /\ env.USE_S3 = Chars("True") => env.base_path_exists
        /\ env.USE_S3 # Chars("True") =>
              /\ env.S3_BUCKET_NAME = Unset /\ env.AWS_REGION = Unset
              /\ env.credentials /\ env.head_bucket = "200"
        /\ ~env.credentials => env.head_bucket = "200"}

\* st_call and st_ret hold the environments and the outcomes of the last two
\* init_storage calls; backend is the class of _storage
ConnectInit ==
    /\ backend = "none"
    /\ store = <<>>
    /\ st_call = <<>>
    /\ st_ret = <<>>
    /\ ParserIdle
    /\ IndexIdle
    /\ CatalogIdle
    /\ ThumbnailsIdle
    /\ ConcurrentIdle

LastTwo(log, e) == IF Len(log) < 2 THEN Append(log, e) ELSE Append(Tail(log), e)

\* init_storage: _storage = get_storage()
InitStorage ==
    \E env \in Environments :
       LET r == get_storage(env)
       IN /\ st_call' = LastTwo(st_call, env)
          /\ st_ret' = LastTwo(st_ret, r)
          /\ backend' = IF r.kind = "return" THEN r.value.class ELSE backend
          /\ UNCHANGED <<store, pd_vars, fi_vars, gf_vars, tm_vars, cc_vars>>

ConnectNext == InitStorage

SpecConnect == ConnectInit /\ [][ConnectNext]_vars

\* why the construction of the remote backend fails in the environment env
Cause(env) ==
    IF lower(getenv(env, "USE_S3", Chars("false"))) # Chars("true") THEN "none"
    ELSE IF getenv(env, "S3_BUCKET_NAME", Unset) = Unset THEN "none"
    ELSE IF ~env.credentials THEN "credentials"
    ELSE IF env.head_bucket = "404" THEN "not found"
    ELSE IF env.head_bucket = "403" THEN "access denied"
    ELSE "none"

\* C16: the construction of the remote backend fails with an error in each of
\* the three cases (credentials missing, bucket absent, access denied), and
\* two failures of different cases differ in the kind (class) of the error.
C16_ErrorKindsDistinct ==
    /\ \A i \in 1..Len(st_call) :
          Cause(st_call[i]) # "none" => st_ret[i].kind = "raise"
    /\ \A i, j \in 1..Len(st_call) :
          (/\ Cause(st_call[i]) # "none"
           /\ Cause(st_call[j]) # "none"
           /\ Cause(st_call[i]) # Cause(st_call[j]))
          => st_ret[i].exc.type # st_ret[j].exc.type

(***************************************************************************)
(* The two storage backends on the same dataset                             *)
(***************************************************************************)
\* what LocalStorage answers to the call on the dataset `store`
LocalAnswer(call) ==
    IF call.op = "list_farms" THEN LocalStorage_list_farms("none")
    ELSE IF call.op = "list_images"
         THEN LET farm_path == path_join(base_path, call.farm_id)
                  files == IF isdir(farm_path)
                           THEN walk_files(below_base(lookup(farm_path)[2]), {})
                           ELSE {}
              IN LocalStorage_list_images(call.farm_id, {},
                                          CHOOSE order \in Orders(files) : TRUE)
    ELSE IF call.op = "farm_exists" THEN LocalStorage_farm_exists(call.farm_id)
    ELSE LocalStorage_image_exists(call.farm_id, call.image_path)

\* what S3Storage answers to the call on the dataset `store`
S3Answer(call) ==
    IF call.op = "list_farms" THEN S3Storage_list_farms(0)
    ELSE IF call.op = "list_images" THEN S3Storage_list_images(call.farm_id, 0)
    ELSE IF call.op = "farm_exists" THEN S3Storage_farm_exists(call.farm_id, "none")
    ELSE S3Storage_image_exists(call.farm_id, call.image_path, "none")

\* the answers agree: list_images is compared as a set of paths
SameAnswer(op, a, b) ==
    IF op = "list_images"
    THEN a.kind = "return" /\ b.kind = "return" /\ Range(a.value) = Range(b.value)
    ELSE a = b

\* C17: for the same dataset content, LocalStorage and S3Storage give the same
\* list_farms() result, the same set of list_images(f) paths and the same
\* farm_exists(f) and image_exists(f, p) answers, for every farm id f and
\* path p that are not empty.
C17_BackendsAgree ==
    (/\ st_call.op \in {"list_farms", "list_images", "farm_exists", "image_exists"}
     /\ st_call.fault = "none"
     /\ st_call.op # "list_farms" => st_call.farm_id # <<>>
     /\ st_call.op = "image_exists" => st_call.image_path # <<>>
     /\ DOMAIN store \subseteq CommonPool)
    => /\ SameAnswer(st_call.op, st_ret,
                     IF backend = "local" THEN LocalAnswer(st_call) ELSE S3Answer(st_call))
       /\ SameAnswer(st_call.op, LocalAnswer(st_call), S3Answer(st_call))

\* ---------------------------------------------------------------------------
\* build_farm_index under concurrent callers
\* ---------------------------------------------------------------------------

\* threads that call build_farm_index, and the calls they may make in all
NumBuilders == 2
MaxBuilds == 3
Builders == 1..NumBuilders

\* the local variables of a call
BuildLocals(force, farm_ids, farm_list) ==
    [force |-> force, farm_ids |-> farm_ids, farm_list |-> farm_list]

\* a variant of build_farm_index that binds the global to the list before the
\* loop fills it (`_FARM_INDEX = farm_list = []`)
index_after_eager(pc, index, farm_list) ==
    IF pc \in {"list", "append", "publish"} THEN Some(farm_list) ELSE index

\* _FARM_INDEX after the step at pc: only the assignment that follows the
\* try statement binds the global, and it binds it to the local list
index_after(pc, index, farm_list) ==
    IF pc = "publish" THEN Some(farm_list) ELSE index

BuildPool == {Chars("0/"), Chars("alpha/"), Chars("beta/")}
BuildDatasets == {[k \in ks |-> Blob(k)] : ks \in SUBSET BuildPool}

BuildersInit ==
    /\ backend \in {"local", "s3"}
    /\ store \in BuildDatasets
    /\ st_call = NoCall
    /\ st_ret = NotCalled
    /\ ParserIdle
    /\ IndexIdle
    /\ CatalogIdle
    /\ ThumbnailsIdle
    /\ ProcessorIdle
    /\ AssignmentsIdle
    /\ bi_pc = [t \in Builders |-> "idle"]
    /\ bi_local = [t \in Builders |-> BuildLocals(FALSE, <<>>, <<>>)]
    /\ bi_seen = None
    /\ bi_listed = {}
    /\ bi_calls = 0

BuildQuiet == <<backend, store, st_call, st_ret, pd_vars, gf_vars, tm_vars,
                fi_call, fi_ret, fi_calls, list_farms_calls, ip_vars, ca_vars>>

\* a thread calls build_farm_index(force)
BuildCall(t) ==
    /\ bi_pc[t] = "idle"
    /\ bi_calls < MaxBuilds
    /\ \E force \in BOOLEAN :
          bi_local' = [bi_local EXCEPT ![t] = BuildLocals(force, <<>>, <<>>)]
    /\ bi_pc' = [bi_pc EXCEPT ![t] = "test"]
    /\ bi_calls' = bi_calls + 1
    /\ UNCHANGED <<_FARM_INDEX, bi_seen, bi_listed, BuildQuiet>>

\* `if _FARM_INDEX is not None and not force`, then `farm_list = []`
BuildTest(t) ==
    /\ bi_pc[t] = "test"
    /\ bi_pc' = [bi_pc EXCEPT ![t] = IF _FARM_INDEX # None /\ ~bi_local[t].force
                                     THEN "cached" ELSE "list"]
    /\ UNCHANGED <<_FARM_INDEX, bi_local, bi_seen, bi_listed, bi_calls, BuildQuiet>>

\* `return _FARM_INDEX` of the cached list, or of the list just bound
BuildReturn(t) ==
    /\ bi_pc[t] \in {"cached", "return"}
    /\ bi_seen' = _FARM_INDEX
    /\ bi_pc' = [bi_pc EXCEPT ![t] = "idle"]
    /\ UNCHANGED <<_FARM_INDEX, bi_local, bi_listed, bi_calls, BuildQuiet>>

\* `farm_ids = storage_backend.list_farms()`
BuildList(t) ==
    /\ bi_pc[t] = "list"
    /\ \E fault \in {"none", "OSError"}, fail_at \in 0..Len(Pages(prefix, TRUE)) :
          /\ (backend = "local" => fail_at = 0)
          /\ (backend = "s3" => fault = "none")
          /\ \E farm_ids \in {list_farms(fault, fail_at).value} :
                /\ bi_local' = [bi_local EXCEPT ![t].farm_ids = farm_ids]
                /\ bi_listed' = bi_listed \cup {farm_ids}
    /\ _FARM_INDEX' = index_after("list", _FARM_INDEX, bi_local[t].farm_list)
    /\ bi_pc' = [bi_pc EXCEPT ![t] = "append"]
    /\ UNCHANGED <<bi_seen, bi_calls, BuildQuiet>>

\* one turn of `for farm_id in farm_ids: farm_list.append({'farm_id': farm_id})`,
\* or the end of the loop
BuildAppend(t) ==
    /\ bi_pc[t] = "append"
    /\ \E l \in {bi_local[t]} :
          IF Len(l.farm_list) < Len(l.farm_ids)
          THEN \E farm_list \in {Append(l.farm_list,
                                        [farm_id |-> l.farm_ids[Len(l.farm_list) + 1]])} :
                  /\ bi_local' = [bi_local EXCEPT ![t].farm_list = farm_list]
                  /\ _FARM_INDEX' = index_after("append", _FARM_INDEX, farm_list)
                  /\ UNCHANGED bi_pc
          ELSE /\ bi_pc' = [bi_pc EXCEPT ![t] = "publish"]
               /\ UNCHANGED <<bi_local, _FARM_INDEX>>
    /\ UNCHANGED <<bi_seen, bi_listed, bi_calls, BuildQuiet>>

\* `_FARM_INDEX = farm_list`
BuildPublish(t) ==
    /\ bi_pc[t] = "publish"
    /\ _FARM_INDEX' = index_after("publish", _FARM_INDEX, bi_local[t].farm_list)
    /\ bi_pc' = [bi_pc EXCEPT ![t] = "return"]
    /\ UNCHANGED <<bi_local, bi_seen, bi_listed, bi_calls, BuildQuiet>>

\* farms are added to or removed from the dataset while calls are under way
FarmsChange ==
    /\ store' \in BuildDatasets \ {store}
    /\ UNCHANGED <<backend, st_call, st_ret, pd_vars, fi_vars, gf_vars, tm_vars, cc_vars>>

BuildersNext ==
    \/ \E t \in Builders : BuildCall(t)
    \/ \E t \in Builders : BuildTest(t)
    \/ \E t \in Builders : BuildReturn(t)
    \/ \E t \in Builders : BuildList(t)
    \/ \E t \in Builders : BuildAppend(t)
    \/ \E t \in Builders : BuildPublish(t)
    \/ FarmsChange

SpecBuilders == BuildersInit /\ [][BuildersNext]_vars

\* the index is the whole of a list that one list_farms call returned
CompleteIndex(index) ==
    \/ index = None
    \/ \E farm_ids \in bi_listed :
          index.list = [i \in 1..Len(farm_ids) |-> [farm_id |-> farm_ids[i]]]

\* C21: under any interleaving of build_farm_index calls, forced or not, the
\* global index and the list a call returns are either no index or the whole
\* of one listing, the previous one or the rebuilt one, never a list that is
\* still being filled.
C21_NoPartialIndex ==
    /\ CompleteIndex(_FARM_INDEX)
    /\ CompleteIndex(bi_seen)

\* a reader has passed the test and is about to return the previous index
\* while a forced rebuild has appended one of its two farms
C21_Witness ==
    /\ bi_pc[1] = "append"
    /\ bi_local[1].force
    /\ bi_local[1].farm_ids = <<Chars("alpha"), Chars("beta")>>
    /\ bi_local[1].farm_list = <<[farm_id |-> Chars("alpha")]>>
    /\ bi_pc[2] = "cached"
    /\ _FARM_INDEX = Some(<<[farm_id |-> Chars("beta")]>>)
    /\ bi_seen = _FARM_INDEX

\* ---------------------------------------------------------------------------
\* ImageProcessor.generate_thumbnail_base64 (image_utils.py)
\* ---------------------------------------------------------------------------

\* pixels of a band, and the largest value of a pixel
NumPixels == 4
MaxPixel == 3

\* percentile_range=(0.5, 99.5), and the percentiles themselves, are counted
\* in 200ths
PerCent == 200
percentile_range == <<1, 199>>

RECURSIVE sorted_ints(_)
sorted_ints(a) ==
    IF a = <<>> THEN <<>>
    ELSE LET i == CHOOSE k \in 1..Len(a) : \A j \in 1..Len(a) : a[k] <= a[j]
         IN <<a[i]>> \o sorted_ints(SubSeq(a, 1, i - 1) \o SubSeq(a, i + 1, Len(a)))

\* np.percentile(a, q), linear interpolation between the two nearest ranks;
\* q and the result in 200ths
percentile(a, q) ==
    LET v == sorted_ints(a)
        pos == q * (Len(v) - 1)
        lo == (pos \div PerCent) + 1
        hi == IF lo < Len(v) THEN lo + 1 ELSE lo
    IN PerCent * v[lo] + (pos % PerCent) * (v[hi] - v[lo])

\* p_low, p_high of a band: the percentiles of its pixels above 0, or of all
\* its pixels when none is above 0
stretch_limits(band) ==
    LET non_zero == SelectSeq(band, LAMBDA x : x > 0)
        of == IF Len(non_zero) > 0 THEN non_zero ELSE band
    IN <<percentile(of, percentile_range[1]), percentile(of, percentile_range[2])>>

max(band) == CHOOSE m \in Range(band) : \A x \in Range(band) : x <= m

\* a variant of clip_uint8 that converts without clipping: astype(np.uint8)
\* keeps the low 8 bits
clip_uint8_wrapping(num, den) == (num \div den) % 256

\* np.clip(num / den * 255, 0, 255).astype(np.uint8) for den > 0, num holding
\* the factor 255: the value is cut to 0..255 and its fraction dropped.  The
\* quotient is taken exactly.
clip_uint8(num, den) ==
    IF num <= 0 THEN 0
    ELSE IF num >= 255 * den THEN 255
    ELSE num \div den

\* one turn of the loop of aggressive_stretch: the band of the result
stretch_band(band) ==
    LET p == stretch_limits(band)
        p_low == p[1]
        p_high == p[2]
    IN IF p_high > p_low
       THEN [i \in 1..Len(band) |->
               clip_uint8(255 * (PerCent * band[i] - p_low), p_high - p_low)]
       ELSE IF max(band) > 0
            THEN [i \in 1..Len(band) |-> clip_uint8(255 * band[i], max(band))]
            ELSE [i \in 1..Len(band) |-> clip_uint8(255 * band[i], 1)]

aggressive_stretch(rgb_array) == [i \in 1..3 |-> stretch_band(rgb_array[i])]

\* a file: count bands, data[k] the pixels of the band of 0-based index k;
\* readable tells whether the library that opens it succeeds
RasterFile(readable, count, data) == [readable |-> readable, count |-> count, data |-> data]

\* the PNG a route returns as a data URL: rgb names the bands behind the
\* three channels, pixels holds the channels
DataUrl(route, rgb, pixels, size) ==
    <<[route |-> route, rgb |-> rgb, pixels |-> pixels, size |-> size]>>

generate_thumbnail_base64(img_path, f, size) ==
    IF endswith(lower(img_path), Chars(".png"))
    THEN IF f.readable
         THEN Return(DataUrl("png", <<"as decoded">>, <<>>, size))
         ELSE Return(<<>>)
    ELSE IF ~f.readable THEN Return(<<>>)
    ELSE IF f.count >= 4
         THEN Return(DataUrl("rasterio", <<3, 2, 1>>,
                             aggressive_stretch(<<f.data[3], f.data[2], f.data[1]>>), size))
         ELSE Return(<<>>)

\* the bands the model draws from: every band of NumPixels pixels, and the
\* band whose pixels all have the value k
PixelBands == [1..NumPixels -> 0..MaxPixel]
Flat(k) == [i \in 1..NumPixels |-> k % (MaxPixel + 1)]

\* rasters of 1 to 5 bands: one band holds any pixels, the others are flat
Rasters ==
    {RasterFile(readable, count, [k \in 0..(count - 1) |-> IF k = j THEN v ELSE Flat(k)]) :
        readable \in BOOLEAN, count \in 1..5, j \in 0..4, v \in PixelBands}

ProcessorPaths == {Chars("/data/farm_X/a.TIF"), Chars("/data/farm_X/b.png")}

ProcessorInit ==
    /\ backend = "none"
    /\ store = <<>>
    /\ st_call = NoCall
    /\ st_ret = NotCalled
    /\ ParserIdle
    /\ IndexIdle
    /\ CatalogIdle
    /\ ThumbnailsIdle
    /\ BuildersIdle
    /\ AssignmentsIdle
    /\ gt_call \in {[op |-> "none", img_path |-> img_path, file |-> f] :
                       img_path \in ProcessorPaths, f \in Rasters}
    /\ gt_ret = NotCalled

\* generate_thumbnail_base64(img_path) with the default size, on the file
\* that is at img_path
GenerateThumbnail ==
    /\ gt_call.op = "none"
    /\ gt_call' = [gt_call EXCEPT !.op = "generate_thumbnail_base64"]
    /\ gt_ret' = generate_thumbnail_base64(gt_call.img_path, gt_call.file, <<500, 500>>)
    /\ UNCHANGED <<pd_vars, st_vars, fi_vars, gf_vars, tm_vars, bi_vars, ca_vars>>

ProcessorNext == GenerateThumbnail

SpecProcessor == ProcessorInit /\ [][ProcessorNext]_vars

\* the call was made on a raster that rasterio opens
RasterRendered ==
    /\ gt_call.op = "generate_thumbnail_base64"
    /\ is_tiff(gt_call.img_path)
    /\ gt_call.file.readable

\* C26: generate_thumbnail_base64 composes the RGB output from the fixed band
\* mapping of make_thumbnail: for a raster of 4 or more bands the channels
\* (R,G,B) are the bands at the 0-based indices (2,1,0), for a raster of
\* exactly 3 bands they are the bands at the indices (0,1,2).
C26_FixedBandMapping ==
    (RasterRendered /\ gt_call.file.count >= 3) =>
        /\ gt_ret.value # <<>>
        /\ gt_ret.value[1].rgb = IF gt_call.file.count >= 4 THEN <<2, 1, 0>> ELSE <<0, 1, 2>>

\* the image the call returned, and the band behind its channel c
StretchedImage == gt_ret.value[1]
ChannelBand(c) == gt_call.file.data[StretchedImage.rgb[c]]

\* 8-bit values that do not decrease as the intensity grows
Monotone(band, out) ==
    /\ \A i \in 1..Len(out) : out[i] \in 0..255
    /\ \A i, j \in 1..Len(out) : band[i] <= band[j] => out[i] <= out[j]

\* 0 at and below p_low, 255 at and above p_high
EndsPinned(band, out, p) ==
    \A i \in 1..Len(out) :
       /\ PerCent * band[i] <= p[1] => out[i] = 0
       /\ PerCent * band[i] >= p[2] => out[i] = 255

\* C27: the percentile contrast stretch maps each channel of the 3-band
\* composite to 8-bit values in 0..255 that do not decrease as the input
\* intensity grows; when p_low < p_high the output is exactly 0 for inputs at
\* or below p_low and exactly 255 for inputs at or above p_high.
C27_StretchWhenSpread ==
    (RasterRendered /\ gt_ret.value # <<>>) =>
        \A c \in 1..3 :
           \E band \in {ChannelBand(c)}, out \in {StretchedImage.pixels[c]} :
              /\ Monotone(band, out)
              /\ \E p \in {stretch_limits(band)} :
                    p[1] < p[2] => EndsPinned(band, out, p)

\* the band of pixels 0, 1, 2, 3 behind the blue channel: p_low = 1.01 and
\* p_high = 2.99, and the pixel 2 between them comes out as 127
C27_Witness ==
    /\ RasterRendered
    /\ gt_ret.value # <<>>
    /\ ChannelBand(3) = <<0, 1, 2, 3>>
    /\ stretch_limits(ChannelBand(3)) = <<202, 598>>
    /\ StretchedImage.pixels[3] = <<0, 0, 127, 255>>

\* C27 as stated: the ends are pinned to 0 and 255 for every channel
C27_StretchPinned ==
    (RasterRendered /\ gt_ret.value # <<>>) =>
        \A c \in 1..3 :
           \E band \in {ChannelBand(c)}, out \in {StretchedImage.pixels[c]} :
              /\ Monotone(band, out)
              /\ EndsPinned(band, out, stretch_limits(band))

\* ---------------------------------------------------------------------------
\* create_assignment (app.py): requests of the admin, interleaved at their awaits
\* ---------------------------------------------------------------------------

\* requests under way at once, and requests made in all
NumRequests == 2
MaxRequests == 3
Requests == 1..NumRequests

\* the users collection, and the user ids and farm counts the admin sends
Users == {"u1", "u2"}
UserArgs == Users \cup {"nobody"}
FarmCounts == {1, 2}

AssignFarms == {Chars("alpha/"), Chars("beta/"), Chars("gamma/")}

\* a document of the assignments collection
Assignment(id, user_id, farm_ids) == [_id |-> id, user_id |-> user_id, farm_ids |-> farm_ids]

\* find_one: the first document that matches, or None
NoDoc == [found |-> FALSE, doc |-> Assignment(0, "", <<>>)]
find_one(docs, user_id) ==
    LET hits == {i \in 1..Len(docs) : docs[i].user_id = user_id}
    IN IF hits = {} THEN NoDoc
       ELSE [found |-> TRUE, doc |-> docs[CHOOSE i \in hits : \A j \in hits : i <= j]]

AssignLocals(user_id, farm_count, farm_ids, existing_assignment) ==
    [user_id |-> user_id, farm_count |-> farm_count, farm_ids |-> farm_ids,
     existing_assignment |-> existing_assignment]

\* assigned_farm_ids: the union of the farm_ids of the documents read
assigned_farm_ids(docs) == UNION {Range(docs[i].farm_ids) : i \in 1..Len(docs)}

\* unassigned_farms: the farms of the index that no document read holds
unassigned_farms(all_farm_ids, docs) ==
    SelectSeq(all_farm_ids, LAMBDA fid : fid \notin assigned_farm_ids(docs))

AssignInit ==
    /\ backend = "local"
    /\ store = [k \in AssignFarms |-> Blob(k)]
    /\ st_call = NoCall
    /\ st_ret = NotCalled
    /\ ParserIdle
    /\ IndexIdle
    /\ CatalogIdle
    /\ ThumbnailsIdle
    /\ BuildersIdle
    /\ ProcessorIdle
    /\ assignments = <<>>
    /\ ca_pc = [r \in Requests |-> "idle"]
    /\ ca_local = [r \in Requests |-> AssignLocals("", 0, <<>>, NoDoc)]
    /\ ca_calls = 0

AssignQuiet == <<pd_vars, st_vars, gf_vars, tm_vars, bi_vars, ip_vars,
                 fi_call, fi_ret, fi_calls, list_farms_calls>>

\* POST /api/admin/assignments: the user is looked up; an unknown user is
\* answered with 404
CreateAssignment(r) ==
    /\ ca_pc[r] = "idle"
    /\ ca_calls < MaxRequests
    /\ ca_calls' = ca_calls + 1
    /\ \E user_id \in UserArgs, farm_count \in FarmCounts :
          /\ ca_local' = [ca_local EXCEPT ![r] = AssignLocals(user_id, farm_count, <<>>, NoDoc)]
          /\ ca_pc' = [ca_pc EXCEPT ![r] = IF user_id \in Users THEN "read" ELSE "idle"]
    /\ UNCHANGED <<assignments, _FARM_INDEX, AssignQuiet>>

\* build_farm_index(), then the assignments are read and the unassigned
\* farms chosen; too few of them are answered with 400
ReadAssignments(r) ==
    /\ ca_pc[r] = "read"
    /\ \E b \in {build_farm_index(FALSE, list_farms("none", 0))} :
          /\ _FARM_INDEX' = b.index
          /\ \E free \in {unassigned_farms([i \in 1..Len(b.ret.list) |-> b.ret.list[i].farm_id],
                                           assignments)} :
                IF Len(free) < ca_local[r].farm_count
                THEN /\ ca_pc' = [ca_pc EXCEPT ![r] = "idle"]
                     /\ UNCHANGED ca_local
                ELSE /\ ca_pc' = [ca_pc EXCEPT ![r] = "find"]
                     /\ ca_local' = [ca_local EXCEPT ![r].farm_ids =
                                        SubSeq(free, 1, ca_local[r].farm_count)]
    /\ UNCHANGED <<assignments, ca_calls, AssignQuiet>>

\* find_one({"user_id": user_id})
FindExisting(r) ==
    /\ ca_pc[r] = "find"
    /\ ca_local' = [ca_local EXCEPT ![r].existing_assignment =
                       find_one(assignments, ca_local[r].user_id)]
    /\ ca_pc' = [ca_pc EXCEPT ![r] = "write"]
    /\ UNCHANGED <<assignments, ca_calls, _FARM_INDEX, AssignQuiet>>

\* update_one sets farm_ids of the document found to the list read before
\* plus the new farms; or insert_one adds a document for the user
WriteAssignment(r) ==
    /\ ca_pc[r] = "write"
    /\ \E l \in {ca_local[r]} :
          IF l.existing_assignment.found
          THEN assignments' =
                  [i \in 1..Len(assignments) |->
                     IF assignments[i]._id = l.existing_assignment.doc._id
                     THEN [assignments[i] EXCEPT
                             !.farm_ids = l.existing_assignment.doc.farm_ids \o l.farm_ids]
                     ELSE assignments[i]]
          ELSE assignments' =
                  Append(assignments, Assignment(Len(assignments) + 1, l.user_id, l.farm_ids))
    /\ ca_pc' = [ca_pc EXCEPT ![r] = "idle"]
    /\ UNCHANGED <<ca_local, ca_calls, _FARM_INDEX, AssignQuiet>>

AssignNext ==
    \/ \E r \in Requests : CreateAssignment(r)
    \/ \E r \in Requests : ReadAssignments(r)
    \/ \E r \in Requests : FindExisting(r)
    \/ \E r \in Requests : WriteAssignment(r)

SpecAssign == AssignInit /\ [][AssignNext]_vars

\* C30: after any interleaving of create_assignment requests no farm id is
\* assigned twice: the farm_ids lists of the assignment records are pairwise
\* disjoint and free of duplicates, every assigned id is in the farm index,
\* and no user has more than one record.
C30_NoFarmAssignedTwice ==
    /\ \A i, j \in 1..Len(assignments) :
          i # j => /\ Range(assignments[i].farm_ids) \cap Range(assignments[j].farm_ids) = {}
                   /\ assignments[i].user_id # assignments[j].user_id
    /\ \A i \in 1..Len(assignments) :
          /\ Cardinality(Range(assignments[i].farm_ids)) = Len(assignments[i].farm_ids)
          /\ \A fid \in Range(assignments[i].farm_ids) :
                \E k \in 1..Len(_FARM_INDEX.list) : _FARM_INDEX.list[k].farm_id = fid

====
